---- MODULE Spec2Model ----
(***************************************************************************)
(* Masterchain structures of src/src/master.rs: the key-block index        *)
(* (OldMcBlocksInfo), the shard topology (ShardHashes), the decaying       *)
(* counters (Counters) and the wire formats of ShardDescr, McBlockExtra,   *)
(* McStateExtra and ShardCollators.                                        *)
(*                                                                         *)
(* The generic containers the file uses (HashmapAugE, BinTree) and         *)
(* ShardIdent live in other files of the crate; they are modelled after    *)
(* the behaviour spec.md gives them.                                       *)
(***************************************************************************)
EXTENDS Integers, Sequences, FiniteSets, TLC

VARIABLES
    debug_build,     \* build profile: dev/test (overflow checks and debug assertions on) or release
    prev_blocks,     \* OldMcBlocksInfo: seq_no -> KeyExtBlkRef
    kb_last,         \* the last key-block query and what it returned
    shards,          \* ShardHashes: workchain_id -> BinTree<ShardDescr>
    last,            \* the last ShardHashes call, its arguments and its outcome
    counters,        \* a Counters value
    cn_last,         \* the last Counters call, its arguments and what it returned
    cn_calls,        \* the calls that changed counters so far
    cn_loaded,       \* whether counters was ever set by read_from
    serde            \* the last value written, the cell it gave and what was read back

vars == <<debug_build, prev_blocks, kb_last, shards, last,
          counters, cn_last, cn_calls, cn_loaded, serde>>

kb_vars == <<prev_blocks, kb_last>>
sh_vars == <<shards, last>>
cn_vars == <<counters, cn_last, cn_calls, cn_loaded>>
sd_vars == <<serde>>

(***************************************************************************)
(* Bounds of the model.                                                    *)
(***************************************************************************)
\* entries held by the key-block index
MaxEntries == 2
\* leaves (shards) held by the whole topology
MaxLeaves == 3
\* calls that change a Counters value
MaxCalls == 2
\* messages of one list passed to write_copyleft_msgs
MaxMsgs == 3
\* ids of one list passed to RefShardBlocks::with_ids
MaxIds == 3

(***************************************************************************)
(* Machine integers.                                                       *)
(***************************************************************************)
RECURSIVE Pow2Rec(_)
Pow2Rec(n) == IF n = 0 THEN 1 ELSE 2 * Pow2Rec(n - 1)

Pow2Table == [n \in 0..32 |-> Pow2Rec(n)]

Pow2(n) == Pow2Table[n]

\* width of the keys of OldMcBlocksInfo (define_HashmapAugE!(OldMcBlocksInfo, 32, ...))
KeyBits == 32

Max(a, b) == IF a >= b THEN a ELSE b

(***************************************************************************)
(* u32 values are kept as two 16-bit limbs <<hi, lo>> (value hi * 2^16 +   *)
(* lo), so that the whole 32-bit range is represented exactly.             *)
(***************************************************************************)
Limb == Pow2(16)

U32(hi, lo) == <<hi, lo>>

U32Lt(a, b) == a[1] < b[1] \/ (a[1] = b[1] /\ a[2] < b[2])
U32Le(a, b) == a = b \/ U32Lt(a, b)

\* a >> n on u32, for a shift amount n in 0..31
Shr(a, n) ==
    IF n = 0 THEN a
    ELSE IF n >= 16 THEN U32(0, a[1] \div Pow2(n - 16))
    ELSE U32(a[1] \div Pow2(n),
             (a[1] % Pow2(n)) * Pow2(16 - n) + a[2] \div Pow2(n))

\* a << n on u32, for a shift amount n in 0..31 (bits shifted out are lost)
Shl(a, n) ==
    IF n = 0 THEN a
    ELSE IF n >= 16 THEN U32((a[2] * Pow2(n - 16)) % Limb, 0)
    ELSE U32((a[1] * Pow2(n) + a[2] \div Pow2(16 - n)) % Limb,
             (a[2] * Pow2(n)) % Limb)

\* 2 * x and 2 * x + 1 on u32: with overflow checks a product or sum beyond
\* 2^32 - 1 panics, without them it wraps
U32Wraps(x) == x[1] >= Limb \div 2

Twice(x) == Shl(x, 1)

TwicePlusOne(x) == LET t == Shl(x, 1) IN U32(t[1], t[2] + 1)

(***************************************************************************)
(* Key-block index: values and aggregate.                                  *)
(***************************************************************************)
\* seq_nos the index is filled from: neighbours, both halves of the key space
SeqNos == {U32(0, 0), U32(0, 1), U32(0, 6), U32(0, 7), U32(32768, 0), U32(65535, 65535)}

\* req_seqno values queried: the stored ones, the gaps between and the extremes
ReqSeqNos ==
    SeqNos \cup {U32(0, 3), U32(0, 8), U32(32767, 65535), U32(32768, 1), U32(65535, 65534)}

EndLts == {10}

\* KeyExtBlkRef { key, blk_ref: ExtBlkRef { end_lt, seq_no, root_hash, file_hash } }
\* The hashes of a block are kept as its seq_no marked "root" or "file".
KeyExtBlkRef(key, seq_no, end_lt) ==
    [key |-> key,
     blk_ref |-> [seq_no |-> seq_no, end_lt |-> end_lt,
                  root_hash |-> <<"root", seq_no>>, file_hash |-> <<"file", seq_no>>]]

\* impl Augmentation<KeyMaxLt> for KeyExtBlkRef
aug(v) == [key |-> v.key, max_end_lt |-> v.blk_ref.end_lt]

\* impl Augmentable for KeyMaxLt: self.calc(other)
calc(self, other) ==
    [key |-> IF other.key THEN TRUE ELSE self.key,
     max_end_lt |-> IF self.max_end_lt < other.max_end_lt
                    THEN other.max_end_lt ELSE self.max_end_lt]

(***************************************************************************)
(* Option<T>: None is the empty sequence, Some(v) the one-element one.     *)
(* Result<T>: tag "Ok" with the value, "Err", or "Panic" (the call never   *)
(* returns).                                                               *)
(***************************************************************************)
None == <<>>
Some(v) == <<v>>

\* a map with no entry
EmptyMap == [k \in {} |-> None]

Ok(v) == [tag |-> "Ok", val |-> v]
Err == [tag |-> "Err", val |-> None]
Panic == [tag |-> "Panic", val |-> None]

(***************************************************************************)
(* HashmapAugE 32: a binary trie with path compression.  The node reached  *)
(* for a set K of keys sharing the consumed bits carries as label the      *)
(* longest prefix common to all of K; a fork's aggregate combines the      *)
(* aggregates of its two children.                                         *)
(***************************************************************************)
\* the first m bits of the 32-bit key k, as an integer
KeyPrefix(k, m) == IF m = 0 THEN U32(0, 0) ELSE Shr(k, KeyBits - m)

\* bit i of k, counted from the most significant one
KeyBit(k, i) == Shr(k, KeyBits - 1 - i)[2] % 2

\* length of the longest prefix shared by every key of K (K is not empty)
RECURSIVE CommonBits(_, _, _)
CommonBits(a, b, n) ==
    IF a = b THEN n ELSE CommonBits(a \div 2, b \div 2, n - 1)

\* number of leading bits two keys share
CommonPrefixLen(j, k) ==
    IF j[1] # k[1] THEN CommonBits(j[1], k[1], 16)
    ELSE 16 + CommonBits(j[2], k[2], 16)

LabelEnd(K) ==
    LET k0 == CHOOSE k \in K : TRUE
        lens == {CommonPrefixLen(k0, k) : k \in K}
    IN  CHOOSE m \in lens : \A n \in lens : m <= n

\* the keys of K below the fork at prefix length m whose next bit is b
Child(K, m, b) == {k \in K : KeyBit(k, m) = b}

\* aggregate stored in the node over the keys K
RECURSIVE NodeAug(_, _)
NodeAug(dict, K) ==
    LET m == LabelEnd(K)
    IN  IF m = KeyBits
        THEN aug(dict[CHOOSE k \in K : TRUE])
        ELSE calc(NodeAug(dict, Child(K, m, 0)), NodeAug(dict, Child(K, m, 1)))

(***************************************************************************)
(* OldMcBlocksInfo::build_key_part                                         *)
(*   key_prefix holds the consumed bits left aligned (value p of m bits).  *)
(***************************************************************************)
\* a u32 shift right by n: with overflow checks (dev/test profile) a shift by
\* the width panics, without them the amount is taken modulo the width
ShrChecked(x, n, dbg) ==
    IF n >= 32
    THEN IF dbg THEN Panic ELSE Ok(Shr(x, n % 32))
    ELSE Ok(Shr(x, n))

build_key_part(p, m, dbg) ==
    IF m > 32
    THEN Err
    ELSE LET key_buf == IF m = 0 THEN U32(0, 0) ELSE Shl(p, KeyBits - m)
         IN  ShrChecked(key_buf, 32 - m, dbg)

(***************************************************************************)
(* The visitors of get_prev_key_block and get_next_key_block: what the     *)
(* closure answers for the node with prefix p of m bits, aggregate a and   *)
(* (on a leaf) value value_opt.                                            *)
(***************************************************************************)
Step(s) == [step |-> s, val |-> None]
End(v) == [step |-> "End", val |-> Some(v)]

prev_visitor(p, m, a, value_opt, req_seqno, dbg) ==
    IF ~a.key
    THEN Step("Stop")
    ELSE LET kp == build_key_part(p, m, dbg)
             x == kp.val
             d == 32 - m
         IN  IF kp.tag # "Ok" THEN Step(kp.tag)
             ELSE IF d = 0
             THEN IF U32Le(x, req_seqno)
                  THEN IF value_opt = None THEN Step("Err")
                       ELSE End(value_opt[1])
                  ELSE Step("Stop")
             ELSE LET y == Shr(req_seqno, d - 1)
                  IN  IF dbg /\ U32Wraps(x) THEN Step("Panic")
                      ELSE IF U32Lt(y, Twice(x)) THEN Step("Stop")
                      ELSE IF y = Twice(x) THEN Step("VisitZero")
                      ELSE Step("VisitOneZero")

next_visitor(p, m, a, value_opt, req_seqno, dbg) ==
    IF ~a.key
    THEN Step("Stop")
    ELSE LET kp == build_key_part(p, m, dbg)
             x == kp.val
             d == 32 - m
         IN  IF kp.tag # "Ok" THEN Step(kp.tag)
             ELSE IF d = 0
             THEN IF U32Le(req_seqno, x)
                  THEN IF value_opt = None THEN Step("Err")
                       ELSE End(value_opt[1])
                  ELSE Step("Stop")
             ELSE LET y == Shr(req_seqno, d - 1)
                  IN  IF dbg /\ U32Wraps(x) THEN Step("Panic")
                      ELSE IF U32Lt(TwicePlusOne(x), y) THEN Step("Stop")
                      ELSE IF y = TwicePlusOne(x) THEN Step("VisitOne")
                      ELSE Step("VisitZeroOne")

visitor(mode, p, m, a, value_opt, req_seqno, dbg) ==
    IF mode = "prev"
    THEN prev_visitor(p, m, a, value_opt, req_seqno, dbg)
    ELSE next_visitor(p, m, a, value_opt, req_seqno, dbg)

(***************************************************************************)
(* HashmapAugType::traverse: the callback is called on every node the      *)
(* descent reaches, with the bits consumed so far (the node's label        *)
(* included); it prunes, ends with a result, or names the children to      *)
(* visit and their order.  The first child that yields a result ends the   *)
(* traversal.                                                              *)
(***************************************************************************)
to_visit(step) ==
    CASE step = "VisitZero" -> <<0>>
      [] step = "VisitOne" -> <<1>>
      [] step = "VisitZeroOne" -> <<0, 1>>
      [] step = "VisitOneZero" -> <<1, 0>>
      [] OTHER -> <<>>

RECURSIVE traverse_internal(_, _, _, _, _)
RECURSIVE traverse_children(_, _, _, _, _, _, _)
traverse_internal(dict, K, mode, req_seqno, dbg) ==
    LET m == LabelEnd(K)
        k0 == CHOOSE k \in K : TRUE
        value_opt == IF m = KeyBits THEN Some(dict[k0]) ELSE None
        st == visitor(mode, KeyPrefix(k0, m), m, NodeAug(dict, K), value_opt, req_seqno, dbg)
    IN  IF st.step \in {"Err", "Panic"} THEN [tag |-> st.step, val |-> None]
        ELSE IF st.step = "End" THEN Ok(st.val)
        ELSE IF m = KeyBits THEN Ok(None)
        ELSE traverse_children(dict, K, m, to_visit(st.step), mode, req_seqno, dbg)

traverse_children(dict, K, m, order, mode, req_seqno, dbg) ==
    IF order = <<>>
    THEN Ok(None)
    ELSE LET r == traverse_internal(dict, Child(K, m, Head(order)), mode, req_seqno, dbg)
         IN  IF r.tag # "Ok" \/ r.val # None
             THEN r
             ELSE traverse_children(dict, K, m, Tail(order), mode, req_seqno, dbg)

traverse(dict, mode, req_seqno, dbg) ==
    IF DOMAIN dict = {}
    THEN Ok(None)
    ELSE traverse_internal(dict, DOMAIN dict, mode, req_seqno, dbg)

(***************************************************************************)
(* OldMcBlocksInfo::get_prev_key_block / get_next_key_block                *)
(***************************************************************************)
\* what the call gives for the found KeyExtBlkRef; the dev/test profile also
\* carries the debug assertions on the found entry
found_result(found, holds, dbg) ==
    IF found.tag # "Ok" THEN found
    ELSE IF found.val = None THEN Ok(None)
    ELSE IF dbg /\ ~holds THEN Panic
    ELSE Ok(Some(found.val[1].blk_ref))

get_prev_key_block(dict, req_seqno, dbg) ==
    LET found == traverse(dict, "prev", req_seqno, dbg)
        holds(id) == U32Le(id.blk_ref.seq_no, req_seqno) /\ id.key
    IN  found_result(found, found.tag = "Ok" /\ found.val # None => holds(found.val[1]), dbg)

get_next_key_block(dict, req_seqno, dbg) ==
    LET found == traverse(dict, "next", req_seqno, dbg)
        holds(id) == U32Le(req_seqno, id.blk_ref.seq_no) /\ id.key
    IN  found_result(found, found.tag = "Ok" /\ found.val # None => holds(found.val[1]), dbg)

(***************************************************************************)
(* Shard topology: ShardIdent.  The u64 prefix with its terminating bit is *)
(* kept as the sequence of the prefix bits before the terminator.          *)
(***************************************************************************)
MAX_SPLIT_DEPTH == 60

Bits == {0, 1}

ShardIdent(workchain_id, prefix) == [workchain_id |-> workchain_id, prefix |-> prefix]

\* ShardIdent::full
ShardFull(workchain_id) == ShardIdent(workchain_id, <<>>)

\* ShardIdent::shard_key(false): the prefix bits, without the workchain
shard_key(shard) == shard.prefix

\* ShardIdent::with_prefix_slice
with_prefix_slice(workchain_id, key) == ShardIdent(workchain_id, key)

\* ShardIdent::split: the two halves, none below the maximal split depth
shard_split(shard) ==
    IF Len(shard.prefix) >= MAX_SPLIT_DEPTH
    THEN Err
    ELSE Ok(<<ShardIdent(shard.workchain_id, Append(shard.prefix, 0)),
              ShardIdent(shard.workchain_id, Append(shard.prefix, 1))>>)

\* ShardIdent::merge: the parent, none for the full shard
shard_merge(shard) ==
    IF Len(shard.prefix) = 0
    THEN Err
    ELSE Ok(ShardIdent(shard.workchain_id,
                       SubSeq(shard.prefix, 1, Len(shard.prefix) - 1)))

IsPrefixOf(p, q) == Len(p) <= Len(q) /\ SubSeq(q, 1, Len(p)) = p

(***************************************************************************)
(* ShardDescr                                                              *)
(***************************************************************************)
SHARD_FULL == "8000000000000000"

DefaultShardDescr ==
    [seq_no |-> 0, reg_mc_seqno |-> 0, start_lt |-> 0, end_lt |-> 0,
     root_hash |-> 0, file_hash |-> 0,
     before_split |-> FALSE, before_merge |-> FALSE,
     want_split |-> FALSE, want_merge |-> FALSE, nx_cc_updated |-> FALSE,
     flags |-> 0, next_catchain_seqno |-> U32(0, 0),
     next_validator_shard |-> "0000000000000000",
     min_ref_mc_seqno |-> 0, gen_utime |-> 0, split_merge_at |-> "None",
     fees_collected |-> 0, funds_created |-> 0, copyleft_rewards |-> <<>>,
     proof_chain |-> None, collators |-> None, mesh_msg_queues |-> <<>>,
     pack_info |-> None]

BlockIdExt(shard_id, seq_no, root_hash, file_hash) ==
    [shard_id |-> shard_id, seq_no |-> seq_no,
     root_hash |-> root_hash, file_hash |-> file_hash]

\* McShardRecord::from_shard_descr
from_shard_descr(shard, descr) ==
    [descr |-> descr,
     block_id |-> BlockIdExt(shard, descr.seq_no, descr.root_hash, descr.file_hash)]

(***************************************************************************)
(* OldMcBlocksInfo::check_key_block                                        *)
(***************************************************************************)
MASTERCHAIN_ID == -1

\* ShardIdent::is_masterchain
is_masterchain(shard) == shard.workchain_id = MASTERCHAIN_ID

\* check_key_block without the comparison of the file hashes
check_key_block_ignoring_file_hash(dict, id, is_key_opt) ==
    IF ~is_masterchain(id.shard_id) THEN Err
    ELSE IF id.seq_no \notin DOMAIN dict THEN Err
    ELSE LET found_id == dict[id.seq_no]
         IN  IF found_id.blk_ref.root_hash # id.root_hash THEN Err
             ELSE IF is_key_opt # None /\ is_key_opt[1] # found_id.key THEN Err
             ELSE Ok(None)

\* OldMcBlocksInfo::check_key_block
check_key_block(dict, id, is_key_opt) ==
    IF ~is_masterchain(id.shard_id) THEN Err
    ELSE IF id.seq_no \notin DOMAIN dict THEN Err
    ELSE LET found_id == dict[id.seq_no]
         IN  IF found_id.blk_ref.root_hash # id.root_hash THEN Err
             ELSE IF found_id.blk_ref.file_hash # id.file_hash THEN Err
             ELSE IF is_key_opt # None /\ is_key_opt[1] # found_id.key THEN Err
             ELSE Ok(None)

\* OldMcBlocksInfo::check_block
check_block(dict, id) == check_key_block(dict, id, None)

(***************************************************************************)
(* BinTree<T>, kept as the map from the prefix of each leaf to its value   *)
(* (what iterate yields).  A prefix is a fork when a leaf lies below it.   *)
(* The closures passed to split, merge and update are FnOnce: each is      *)
(* given as the Result it returns for the value it is called with.         *)
(***************************************************************************)
\* BinTree::with_item
bt_with_item(value) == (<<>> :> value)

bt_is_fork(tree, key) == \E p \in DOMAIN tree : p # key /\ IsPrefixOf(key, p)

\* BinTree::get: the leaf exactly at key
bt_get(tree, key) == IF key \in DOMAIN tree THEN Some(tree[key]) ELSE None

\* BinTree::find: the leaf reached when descending along key
bt_find(tree, key) ==
    LET hits == {n \in 0..Len(key) : SubSeq(key, 1, n) \in DOMAIN tree}
    IN  IF hits = {}
        THEN None
        ELSE LET n == CHOOSE m \in hits : \A k \in hits : m <= k
                 prefix == SubSeq(key, 1, n)
             IN  Some(<<prefix, tree[prefix]>>)

BtOut(res, tree) == [res |-> res, tree |-> tree]

\* BinTree::split: the leaf exactly at key becomes a fork of two leaves
bt_split(tree, key, splitter) ==
    IF key \notin DOMAIN tree THEN BtOut(Ok(FALSE), tree)
    ELSE IF splitter.tag # "Ok" THEN BtOut(Err, tree)
    ELSE LET l == Append(key, 0)
             r == Append(key, 1)
         IN  BtOut(Ok(TRUE),
                   [p \in (DOMAIN tree \ {key}) \cup {l, r} |->
                       IF p = l THEN splitter.val[1]
                       ELSE IF p = r THEN splitter.val[2]
                       ELSE tree[p]])

\* BinTree::merge: the fork at key whose two children are leaves becomes a leaf
bt_merge(tree, key, merger) ==
    LET l == Append(key, 0)
        r == Append(key, 1)
    IN  IF ~(l \in DOMAIN tree /\ r \in DOMAIN tree) THEN BtOut(Ok(FALSE), tree)
        ELSE IF merger.tag # "Ok" THEN BtOut(Err, tree)
        ELSE BtOut(Ok(TRUE),
                   [p \in (DOMAIN tree \ {l, r}) \cup {key} |->
                       IF p = key THEN merger.val ELSE tree[p]])

\* BinTree::update: the value of the leaf exactly at key is replaced
bt_update(tree, key, mutator) ==
    IF key \notin DOMAIN tree THEN BtOut(Ok(FALSE), tree)
    ELSE IF mutator.tag # "Ok" THEN BtOut(Err, tree)
    ELSE BtOut(Ok(TRUE), [tree EXCEPT ![key] = mutator.val])

\* BinTree::iterate: the leaves below key, left before right
RECURSIVE bt_iterate(_, _)
bt_iterate(tree, key) ==
    IF key \in DOMAIN tree THEN <<key>>
    ELSE IF bt_is_fork(tree, key)
    THEN bt_iterate(tree, Append(key, 0)) \o bt_iterate(tree, Append(key, 1))
    ELSE <<>>

(***************************************************************************)
(* ShardHashes (HashmapE 32 of BinTree<ShardDescr>)                        *)
(***************************************************************************)
\* HashmapType::set
hm_set(sh, workchain_id, tree) ==
    [w \in DOMAIN sh \cup {workchain_id} |-> IF w = workchain_id THEN tree ELSE sh[w]]

ShOut(res, sh) == [res |-> res, shards |-> sh]

has_workchain(sh, workchain_id) == workchain_id \in DOMAIN sh

\* a split that stores the left half only
split_shard_dropping_right(sh, splitted_shard, splitter) ==
    LET wc == splitted_shard.workchain_id
        key == shard_key(splitted_shard)
    IN  IF wc \notin DOMAIN sh \/ key \notin DOMAIN sh[wc] \/ splitter.tag # "Ok"
        THEN ShOut(Err, sh)
        ELSE ShOut(Ok(None),
                   hm_set(sh, wc, [p \in (DOMAIN sh[wc] \ {key}) \cup {Append(key, 0)} |->
                                      IF p = Append(key, 0) THEN splitter.val[1]
                                      ELSE sh[wc][p]]))

\* a split of the leaf that covers the key, wherever that leaf is
split_shard_of_covering_leaf(sh, splitted_shard, splitter) ==
    LET wc == splitted_shard.workchain_id
        found == IF wc \in DOMAIN sh THEN bt_find(sh[wc], shard_key(splitted_shard)) ELSE None
    IN  IF found = None THEN ShOut(Err, sh)
        ELSE LET out == bt_split(sh[wc], found[1][1], splitter)
             IN  IF out.res.tag # "Ok" THEN ShOut(Err, sh)
                 ELSE ShOut(Ok(None), hm_set(sh, wc, out.tree))

\* a split that stores the two halves the other way round
split_shard_swapped(sh, splitted_shard, splitter) ==
    LET wc == splitted_shard.workchain_id
        swapped == IF splitter.tag = "Ok"
                   THEN Ok(<<splitter.val[2], splitter.val[1]>>) ELSE splitter
    IN  IF wc \notin DOMAIN sh THEN ShOut(Err, sh)
        ELSE LET out == bt_split(sh[wc], shard_key(splitted_shard), swapped)
             IN  IF out.res.tag # "Ok" THEN ShOut(Err, sh)
                 ELSE IF ~out.res.val THEN ShOut(Err, sh)
                 ELSE ShOut(Ok(None), hm_set(sh, wc, out.tree))

\* a merge that never stores the merged trie back
merge_shards_without_set(sh, new_shard, merger) ==
    LET wc == new_shard.workchain_id
    IN  IF wc \notin DOMAIN sh THEN ShOut(Err, sh)
        ELSE LET out == bt_merge(sh[wc], shard_key(new_shard), merger)
             IN  IF out.res.tag # "Ok" THEN ShOut(Err, sh)
                 ELSE IF ~out.res.val THEN ShOut(Err, sh)
                 ELSE ShOut(Ok(None), sh)

\* a merge of whatever lies below a fork
merge_shards_of_any_fork(sh, new_shard, merger) ==
    LET wc == new_shard.workchain_id
        key == shard_key(new_shard)
    IN  IF wc \notin DOMAIN sh THEN ShOut(Err, sh)
        ELSE IF ~bt_is_fork(sh[wc], key) \/ merger.tag # "Ok" THEN ShOut(Err, sh)
        ELSE ShOut(Ok(None),
                   hm_set(sh, wc,
                          [p \in {q \in DOMAIN sh[wc] : ~IsPrefixOf(key, q)} \cup {key} |->
                              IF p = key THEN merger.val ELSE sh[wc][p]]))

find_shard(sh, shard) ==
    IF shard.workchain_id \notin DOMAIN sh THEN Ok(None)
    ELSE LET found == bt_find(sh[shard.workchain_id], shard_key(shard))
         IN  IF found = None THEN Ok(None)
             ELSE Ok(Some(from_shard_descr(
                         with_prefix_slice(shard.workchain_id, found[1][1]),
                         found[1][2])))

get_shard(sh, shard) ==
    IF shard.workchain_id \notin DOMAIN sh THEN Ok(None)
    ELSE LET descr == bt_get(sh[shard.workchain_id], shard_key(shard))
         IN  IF descr = None THEN Ok(None)
             ELSE Ok(Some(from_shard_descr(shard, descr[1])))

split_shard(sh, splitted_shard, splitter) ==
    LET wc == splitted_shard.workchain_id
    IN  IF wc \notin DOMAIN sh THEN ShOut(Err, sh)
        ELSE LET out == bt_split(sh[wc], shard_key(splitted_shard), splitter)
             IN  IF out.res.tag # "Ok" THEN ShOut(Err, sh)
                 ELSE IF ~out.res.val THEN ShOut(Err, sh)
                 ELSE ShOut(Ok(None), hm_set(sh, wc, out.tree))

merge_shards(sh, new_shard, merger) ==
    LET wc == new_shard.workchain_id
    IN  IF wc \notin DOMAIN sh THEN ShOut(Err, sh)
        ELSE LET out == bt_merge(sh[wc], shard_key(new_shard), merger)
             IN  IF out.res.tag # "Ok" THEN ShOut(Err, sh)
                 ELSE IF ~out.res.val THEN ShOut(Err, sh)
                 ELSE ShOut(Ok(None), hm_set(sh, wc, out.tree))

\* an update of the leaf that covers the key, wherever that leaf is
update_shard_of_covering_leaf(sh, shard, mutator) ==
    LET wc == shard.workchain_id
        found == IF wc \in DOMAIN sh THEN bt_find(sh[wc], shard_key(shard)) ELSE None
    IN  IF found = None THEN ShOut(Err, sh)
        ELSE LET out == bt_update(sh[wc], found[1][1], mutator)
             IN  IF out.res.tag # "Ok" THEN ShOut(Err, sh)
                 ELSE ShOut(Ok(None), hm_set(sh, wc, out.tree))

update_shard(sh, shard, mutator) ==
    LET wc == shard.workchain_id
    IN  IF wc \notin DOMAIN sh THEN ShOut(Err, sh)
        ELSE LET out == bt_update(sh[wc], shard_key(shard), mutator)
             IN  IF out.res.tag # "Ok" THEN ShOut(Err, sh)
                 ELSE IF ~out.res.val THEN ShOut(Err, sh)
                 ELSE ShOut(Ok(None), hm_set(sh, wc, out.tree))

\* ShardIdent::check_workchain_id
INVALID_WORKCHAIN_ID == -2147483647 - 1

check_workchain_id(workchain_id) ==
    IF workchain_id = INVALID_WORKCHAIN_ID THEN Err ELSE Ok(None)

\* ShardIdent::left_ancestor_mask and right_ancestor_mask: the key that
\* passes through the shard and then through its left (right) child; what
\* find_shard returns for it depends on no bit after that one
AncestorMaskPad(bit) == [i \in 1..MaxLeaves |-> bit]

left_ancestor_mask(shard) ==
    ShardIdent(shard.workchain_id, shard.prefix \o <<0>> \o AncestorMaskPad(1))

right_ancestor_mask(shard) ==
    ShardIdent(shard.workchain_id, shard.prefix \o <<1>> \o AncestorMaskPad(0))

\* ShardIdent::is_ancestor_for: the shard itself or a shard above it
is_ancestor_for(shard, descendant) ==
    /\ shard.workchain_id = descendant.workchain_id
    /\ IsPrefixOf(shard.prefix, descendant.prefix)

\* ShardIdent::is_parent_for
is_parent_for(shard, child) ==
    /\ shard.workchain_id = child.workchain_id
    /\ Len(child.prefix) = Len(shard.prefix) + 1
    /\ IsPrefixOf(shard.prefix, child.prefix)

U32Max == U32(Limb - 1, Limb - 1)

\* x + 1 on u32: at 2^32 - 1 it panics with overflow checks and wraps without
U32AddOne(x, dbg) ==
    IF x = U32Max THEN (IF dbg THEN Panic ELSE Ok(U32(0, 0)))
    ELSE IF x[2] = Limb - 1 THEN Ok(U32(x[1] + 1, 0))
    ELSE Ok(U32(x[1], x[2] + 1))

\* std::cmp::max on u32
U32MaxOf(a, b) == IF U32Lt(a, b) THEN b ELSE a

calc_shard_cc_seqno(sh, shard, dbg) ==
    IF is_masterchain(shard) THEN Err
    ELSE IF check_workchain_id(shard.workchain_id).tag # "Ok" THEN Err
    ELSE LET found1 == find_shard(sh, left_ancestor_mask(shard))
         IN  IF found1.val = None THEN Err
             ELSE LET shard1 == found1.val[1]
                  IN  IF is_ancestor_for(shard1.block_id.shard_id, shard)
                      THEN Ok(shard1.descr.next_catchain_seqno)
                      ELSE IF ~is_parent_for(shard, shard1.block_id.shard_id) THEN Err
                      ELSE LET found2 == find_shard(sh, right_ancestor_mask(shard))
                           IN  IF found2.val = None THEN Err
                               ELSE LET shard2 == found2.val[1]
                                    IN  IF ~is_parent_for(shard, shard2.block_id.shard_id)
                                        THEN Err
                                        ELSE U32AddOne(
                                                 U32MaxOf(shard1.descr.next_catchain_seqno,
                                                          shard2.descr.next_catchain_seqno),
                                                 dbg)

\* the ShardDescr add_workchain builds
new_workchain_descr(reg_mc_seqno, zerostate_root_hash, zerostate_file_hash, collators) ==
    [DefaultShardDescr EXCEPT
        !.reg_mc_seqno = reg_mc_seqno,
        !.root_hash = zerostate_root_hash,
        !.file_hash = zerostate_file_hash,
        !.next_validator_shard = SHARD_FULL,
        !.collators = collators]

\* an add_workchain without the has_workchain test
add_workchain_overwriting(sh, workchain_id, reg_mc_seqno, zerostate_root_hash, zerostate_file_hash, collators) ==
    ShOut(Ok(None),
          hm_set(sh, workchain_id,
                 bt_with_item(new_workchain_descr(reg_mc_seqno, zerostate_root_hash,
                                                  zerostate_file_hash, collators))))

add_workchain(sh, workchain_id, reg_mc_seqno, zerostate_root_hash, zerostate_file_hash, collators) ==
    IF has_workchain(sh, workchain_id) THEN ShOut(Err, sh)
    ELSE ShOut(Ok(None),
               hm_set(sh, workchain_id,
                      bt_with_item(new_workchain_descr(reg_mc_seqno, zerostate_root_hash,
                                                       zerostate_file_hash, collators))))

\* ShardIdent::with_workchain_id: the full shard of a valid workchain id
with_workchain_id(workchain_id) ==
    IF check_workchain_id(workchain_id).tag # "Ok" THEN Err ELSE Ok(ShardFull(workchain_id))

\* McStateExtra::add_workchain, on the shards field of the McStateExtra
McStateExtra_add_workchain(sh, workchain_id, descr) ==
    ShOut(with_workchain_id(workchain_id), hm_set(sh, workchain_id, bt_with_item(descr)))

\* ShardIdent::is_neighbor_for: the symmetric difference of the two prefixes,
\* taken over the length both have, is empty (one shard contains the other,
\* whatever the workchains), or the shards are of one workchain and the bits
\* that differ lie within one hexadecimal digit of the prefix
is_neighbor_for(shard, other) ==
    LET m == IF Len(shard.prefix) <= Len(other.prefix)
             THEN Len(shard.prefix) ELSE Len(other.prefix)
        z == {i \in 1..m : shard.prefix[i] # other.prefix[i]}
        first == CHOOSE i \in z : \A j \in z : i <= j
        final == CHOOSE i \in z : \A j \in z : j <= i
        c1 == (first - 1) \div 4
        c2 == (64 - final) \div 4
    IN  IF z = {} THEN TRUE
        ELSE IF shard.workchain_id # other.workchain_id THEN FALSE
        ELSE c1 + c2 = 15

\* the registered workchains in the order iterate_with_keys visits them
RECURSIVE SortedSeq(_)
SortedSeq(S) ==
    IF S = {} THEN <<>>
    ELSE LET least == CHOOSE x \in S : \A y \in S : x <= y
         IN  <<least>> \o SortedSeq(S \ {least})

\* ShardHashes::iterate_shards: every (shard, descr), workchain by workchain
RECURSIVE iterate_workchains(_, _)
iterate_workchains(sh, wcs) ==
    IF wcs = <<>> THEN <<>>
    ELSE LET wc == Head(wcs)
             leaves == bt_iterate(sh[wc], <<>>)
         IN  [i \in 1..Len(leaves) |->
                 <<with_prefix_slice(wc, leaves[i]), sh[wc][leaves[i]]>>]
             \o iterate_workchains(sh, Tail(wcs))

iterate_shards(sh) == iterate_workchains(sh, SortedSeq(DOMAIN sh))

\* a get_neighbours that leaves the queried shard out
get_neighbours_without_self(sh, shard) ==
    LET items == iterate_shards(sh)
        keep(item) == item[1] # shard /\ is_neighbor_for(shard, item[1])
        rec(item) == from_shard_descr(item[1], item[2])
    IN  Ok([i \in 1..Len(SelectSeq(items, keep)) |-> rec(SelectSeq(items, keep)[i])])

get_neighbours(sh, shard) ==
    LET items == iterate_shards(sh)
        keep(item) == is_neighbor_for(shard, item[1])
        rec(item) == from_shard_descr(item[1], item[2])
    IN  Ok([i \in 1..Len(SelectSeq(items, keep)) |-> rec(SelectSeq(items, keep)[i])])

\* HashMap::insert and HashMap::entry(k).or_insert_with(Vec::new).push(v)
map_insert(map, k, v) == [x \in DOMAIN map \cup {k} |-> IF x = k THEN v ELSE map[x]]

\* an entry().or_insert_with() that drops what the entry held
map_replace(map, k, v) ==
    [x \in DOMAIN map \cup {k} |-> IF x = k THEN <<v>> ELSE map[x]]

map_push(map, k, v) ==
    [x \in DOMAIN map \cup {k} |->
        IF x = k THEN (IF k \in DOMAIN map THEN Append(map[k], v) ELSE <<v>>)
        ELSE map[x]]

\* a get_new_shards closure that lists every shard under its own key
RECURSIVE new_shards_unchanged(_, _)
new_shards_unchanged(items, new_shards) ==
    IF items = <<>> THEN Ok(new_shards)
    ELSE LET shard == Head(items)[1]
             descr == Head(items)[2]
             block_id == BlockIdExt(shard, descr.seq_no, descr.root_hash, descr.file_hash)
         IN  new_shards_unchanged(Tail(items), map_insert(new_shards, shard, <<block_id>>))

\* the closure get_new_shards passes to iterate_shards, over the shards in turn
RECURSIVE new_shards_from(_, _)
new_shards_from(items, new_shards) ==
    IF items = <<>> THEN Ok(new_shards)
    ELSE LET shard == Head(items)[1]
             descr == Head(items)[2]
             block_id == BlockIdExt(shard, descr.seq_no, descr.root_hash, descr.file_hash)
         IN  IF descr.before_split
             THEN LET lr == shard_split(shard)
                  IN  IF lr.tag # "Ok" THEN Err
                      ELSE new_shards_from(Tail(items),
                               map_insert(map_insert(new_shards, lr.val[1], <<block_id>>),
                                          lr.val[2], <<block_id>>))
             ELSE IF descr.before_merge
             THEN LET par == shard_merge(shard)
                  IN  IF par.tag # "Ok" THEN Err
                      ELSE new_shards_from(Tail(items),
                                           map_push(new_shards, par.val, block_id))
             ELSE new_shards_from(Tail(items), map_insert(new_shards, shard, <<block_id>>))

get_new_shards(sh) == new_shards_from(iterate_shards(sh), EmptyMap)

(***************************************************************************)
(* u64 values are kept as four 16-bit limbs, most significant first, so    *)
(* that the whole 64-bit range is represented exactly.                     *)
(***************************************************************************)
U64(a, b, c, d) == <<a, b, c, d>>

U64Zero == U64(0, 0, 0, 0)
U64One == U64(0, 0, 0, 1)
U64Max == U64(Limb - 1, Limb - 1, Limb - 1, Limb - 1)

\* a < b on limb sequences of one length
LimbsLt(a, b) ==
    \E i \in 1..Len(a) : a[i] < b[i] /\ \A j \in 1..(i - 1) : a[j] = b[j]

LimbsLe(a, b) == a = b \/ LimbsLt(a, b)

\* !a
LimbsNot(a) == [i \in 1..Len(a) |-> Limb - 1 - a[i]]

\* the carry out of limb i when a and b are added
RECURSIVE AddCarry(_, _, _)
AddCarry(a, b, i) ==
    IF i > Len(a) THEN 0 ELSE (a[i] + b[i] + AddCarry(a, b, i + 1)) \div Limb

\* a + b modulo 2^(16 * Len(a)), and whether the sum left that range
WrappingAdd(a, b) == [i \in 1..Len(a) |-> (a[i] + b[i] + AddCarry(a, b, i + 1)) % Limb]

AddOverflows(a, b) == AddCarry(a, b, 1) # 0

\* count << 32 on u64: the upper 32 bits are shifted out
Shl32(a) == U64(a[3], a[4], 0, 0)

\* a - b on u32 for a >= b
U32Sub(a, b) ==
    IF a[2] >= b[2] THEN U32(a[1] - b[1], a[2] - b[2])
    ELSE U32(a[1] - b[1] - 1, a[2] + Limb - b[2])

\* now.checked_sub(last_updated).unwrap_or_default()
checked_sub_or_default(a, b) == IF U32Le(b, a) THEN U32Sub(a, b) ELSE U32(0, 0)

(***************************************************************************)
(* umulnexps32(x, k) = x * exp(-k / 2^16), rounded to the nearest integer. *)
(* exp is taken with 15 fractional bits, tabulated at the arguments the    *)
(* model's time stamps produce; beyond k = 12 * 2^16 it is below 2^-16.    *)
(***************************************************************************)
FracBits == 15

ExpNegTable == (2048 :> 31760) @@ (65536 :> 12055) @@ (98304 :> 7312) @@ (100352 :> 7087)

\* exp(-k / 2^16) * 2^FracBits for a u32 k
ExpNeg(k) == IF k[1] >= 12 THEN 0 ELSE ExpNegTable[k[1] * Limb + k[2]]

\* the carry out of limb i when a is multiplied by the small factor f
RECURSIVE MulCarry(_, _, _)
MulCarry(a, f, i) ==
    IF i > Len(a) THEN 0 ELSE (a[i] * f + MulCarry(a, f, i + 1)) \div Limb

\* a * f, one limb longer than a
MulSmall(a, f) ==
    <<MulCarry(a, f, 1)>> \o [i \in 1..Len(a) |-> (a[i] * f + MulCarry(a, f, i + 1)) % Limb]

\* floor(x * f / 2^15 + 1/2) = floor((2 * x * f + 2^15) / 2^16)
umulnexps32(x, k) ==
    LET product == MulSmall(x, ExpNeg(k))
        doubled == WrappingAdd(product, product)
        rounded == WrappingAdd(doubled, <<0, 0, 0, 0, Pow2(FracBits)>>)
    IN  SubSeq(rounded, 1, 4)

(***************************************************************************)
(* Counters                                                                *)
(***************************************************************************)
Counters(last_updated, total, cnt2048, cnt65536) ==
    [last_updated |-> last_updated, total |-> total,
     cnt2048 |-> cnt2048, cnt65536 |-> cnt65536]

\* Counters::default()
DefaultCounters == Counters(U32(0, 0), U64Zero, U64Zero, U64Zero)

is_valid(c) ==
    IF c.total = U64Zero
    THEN c.cnt2048 = U64Zero /\ c.cnt65536 = U64Zero
    ELSE c.last_updated # U32(0, 0)

\* 48 * 2048 as a u32
ResetDt == U32(1, 32768)

CnOut(ret, c) == [ret |-> ret, counters |-> c]

\* a += b on u64: a panic with overflow checks, the wrapped sum without
add_assign(out, field, b, dbg) ==
    IF out.ret = "panic" THEN out
    ELSE IF AddOverflows(out.counters[field], b) /\ dbg THEN CnOut("panic", out.counters)
    ELSE CnOut(out.ret, [out.counters EXCEPT ![field] = WrappingAdd(@, b)])

\* a decay whose hard reset is on the long window
decayed_resetting_long(c, dt) ==
    IF dt = U32(0, 0) THEN c
    ELSE [c EXCEPT
             !.cnt2048 = umulnexps32(c.cnt2048, Shl(dt, 5)),
             !.cnt65536 = IF U32Le(ResetDt, dt) THEN U64Zero
                          ELSE umulnexps32(c.cnt65536, dt)]

\* the decay of the two sums over dt in increase_by
decayed(c, dt) ==
    IF dt = U32(0, 0) THEN c
    ELSE [c EXCEPT
             !.cnt2048 = IF U32Le(ResetDt, dt) THEN U64Zero
                         ELSE umulnexps32(c.cnt2048, Shl(dt, 5)),
             !.cnt65536 = umulnexps32(c.cnt65536, dt)]

\* an increase_by that stores count as the total of a counter in use
increase_by_overwriting_total(c, count, now, dbg) ==
    IF ~is_valid(c) \/ LimbsLt(LimbsNot(c.total), count) THEN CnOut("false", c)
    ELSE CnOut("true", Counters(now, count, Shl32(count), Shl32(count)))

increase_by(c, count, now, dbg) ==
    LET scaled == Shl32(count)
    IN  IF ~is_valid(c) THEN CnOut("false", c)
        ELSE IF c.total = U64Zero
        THEN CnOut("true", Counters(now, count, scaled, scaled))
        ELSE IF \/ LimbsLt(LimbsNot(c.total), count)
                \/ LimbsLt(LimbsNot(scaled), c.cnt2048)
                \/ LimbsLt(LimbsNot(scaled), c.cnt65536)
        THEN CnOut("false", c)
        ELSE LET dt == checked_sub_or_default(now, c.last_updated)
                 d0 == CnOut("true", decayed(c, dt))
                 d1 == add_assign(d0, "total", count, dbg)
                 d2 == add_assign(d1, "cnt2048", scaled, dbg)
                 d3 == add_assign(d2, "cnt65536", scaled, dbg)
             IN  IF d3.ret = "panic" THEN d3
                 ELSE CnOut("true", [d3.counters EXCEPT !.last_updated = now])

\* x | y on 16-bit limbs, from bit i upwards
RECURSIVE LimbOr(_, _, _)
LimbOr(x, y, i) ==
    IF i = 16 THEN 0
    ELSE (IF (x \div Pow2(i)) % 2 = 1 \/ (y \div Pow2(i)) % 2 = 1 THEN Pow2(i) ELSE 0)
         + LimbOr(x, y, i + 1)

\* a | b on u64
U64Or(a, b) == [i \in 1..4 |-> LimbOr(a[i], b[i], 0)]

\* the value of a bool expression: "true", "false", or "panic" when its
\* evaluation never returns
BoolOf(p) == IF p THEN "true" ELSE "false"

\* x && y: y is evaluated only when x is true
AndThen(x, y) == IF x = "true" THEN y ELSE x

\* a <= b + 1 on u64: at b = 2^64 - 1 the sum panics with overflow checks
\* and wraps to 0 without
le_plus_one(a, b, dbg) ==
    IF b = U64Max THEN (IF dbg THEN "panic" ELSE BoolOf(a = U64Zero))
    ELSE BoolOf(LimbsLe(a, WrappingAdd(b, U64One)))

\* Counters::almost_zero
almost_zero(c) == LimbsLe(U64Or(c.cnt2048, c.cnt65536), U64One)

\* Counters::almost_equals
almost_equals(self, other, dbg) ==
    AndThen(BoolOf(self.last_updated = other.last_updated),
    AndThen(BoolOf(self.total = other.total),
    AndThen(le_plus_one(self.cnt2048, other.cnt2048, dbg),
    AndThen(le_plus_one(other.cnt2048, self.cnt2048, dbg),
    AndThen(le_plus_one(self.cnt65536, other.cnt65536, dbg),
            le_plus_one(other.cnt65536, self.cnt65536, dbg))))))

(***************************************************************************)
(* Key-block index: operations.                                            *)
(***************************************************************************)
EmptyDict == EmptyMap

KbLast(op, req_seqno, res) == [op |-> op, req_seqno |-> req_seqno, res |-> res]

\* HashmapAugType::set(&seq_no, &value, &value.aug()): the entry is stored
\* under its own seq_no, an entry already there is replaced
SetPrevBlock(seq_no, key, end_lt) ==
    /\ Cardinality(DOMAIN prev_blocks \cup {seq_no}) <= MaxEntries
    /\ prev_blocks' = [k \in DOMAIN prev_blocks \cup {seq_no} |->
                          IF k = seq_no THEN KeyExtBlkRef(key, seq_no, end_lt)
                          ELSE prev_blocks[k]]
    /\ kb_last' = KbLast("set", U32(0, 0), Ok(None))
    /\ UNCHANGED <<debug_build, sh_vars, cn_vars, sd_vars>>

GetPrevKeyBlock(req_seqno) ==
    /\ kb_last' = KbLast("prev", req_seqno,
                         get_prev_key_block(prev_blocks, req_seqno, debug_build))
    /\ UNCHANGED <<debug_build, prev_blocks, sh_vars, cn_vars, sd_vars>>

GetNextKeyBlock(req_seqno) ==
    /\ kb_last' = KbLast("next", req_seqno,
                         get_next_key_block(prev_blocks, req_seqno, debug_build))
    /\ UNCHANGED <<debug_build, prev_blocks, sh_vars, cn_vars, sd_vars>>

NextKeyBlocks ==
    \/ \E seq_no \in SeqNos, key \in BOOLEAN, end_lt \in EndLts :
           SetPrevBlock(seq_no, key, end_lt)
    \/ \E req_seqno \in ReqSeqNos : GetPrevKeyBlock(req_seqno)
    \/ \E req_seqno \in ReqSeqNos : GetNextKeyBlock(req_seqno)

(***************************************************************************)
(* Key-block index: check_key_block and check_block.                       *)
(***************************************************************************)
\* block ids given to check_key_block: of the masterchain and of workchain 0,
\* with the hashes of the block of their seq_no or those of no stored block
CheckIds ==
    {BlockIdExt(ShardFull(wc), seq_no,
                <<"root", IF r THEN seq_no ELSE U32(0, 8)>>,
                <<"file", IF f THEN seq_no ELSE U32(0, 8)>>) :
        wc \in {MASTERCHAIN_ID, 0}, seq_no \in {U32(0, 0), U32(0, 1), U32(0, 3)},
        r \in BOOLEAN, f \in BOOLEAN}

IsKeyOpts == {None, Some(TRUE), Some(FALSE)}

CheckKeyBlock(id, is_key_opt) ==
    /\ kb_last' = KbLast("check", id.seq_no,
                         IF is_key_opt = None THEN check_block(prev_blocks, id)
                         ELSE check_key_block(prev_blocks, id, is_key_opt))
    /\ UNCHANGED <<debug_build, prev_blocks, sh_vars, cn_vars, sd_vars>>

NextCheckKeyBlock ==
    \/ \E seq_no \in SeqNos, key \in BOOLEAN, end_lt \in EndLts :
           SetPrevBlock(seq_no, key, end_lt)
    \/ \E id \in CheckIds, is_key_opt \in IsKeyOpts : CheckKeyBlock(id, is_key_opt)

(***************************************************************************)
(* Shard topology: inputs of the calls.                                    *)
(***************************************************************************)
\* workchain ids the calls name (non-negative: iterate_with_keys visits them
\* in ascending order)
Workchains == {0, 1}

\* shard prefixes the calls name: every prefix a topology of MaxLeaves leaves
\* can hold
ShardPrefixes == UNION {[1..n -> Bits] : n \in 0..(MaxLeaves - 1)}

ShardIdents == {ShardIdent(wc, p) : wc \in Workchains, p \in ShardPrefixes}

Descr(seq_no, before_split, before_merge) ==
    [DefaultShardDescr EXCEPT
        !.seq_no = seq_no, !.root_hash = 10 + seq_no, !.file_hash = 20 + seq_no,
        !.before_split = before_split, !.before_merge = before_merge]

\* descriptors the splitter, merger and mutator closures return
DescrPool == {Descr(1, TRUE, FALSE), Descr(2, FALSE, TRUE)}

SplitterResults == {Err} \cup {Ok(<<l, r>>) : l, r \in DescrPool}
MergerResults == {Err} \cup {Ok(d) : d \in DescrPool}
MutatorResults == {Err} \cup {Ok(d) : d \in DescrPool}

\* arguments of add_workchain
WorkchainParams ==
    {[reg_mc_seqno |-> 7, zerostate_root_hash |-> 11, zerostate_file_hash |-> 12,
      collators |-> None],
     [reg_mc_seqno |-> 8, zerostate_root_hash |-> 13, zerostate_file_hash |-> 14,
      collators |-> Some("collators")]}

RECURSIVE SumLeaves(_, _)
SumLeaves(sh, wcs) ==
    IF wcs = {} THEN 0
    ELSE LET wc == CHOOSE w \in wcs : TRUE
         IN  Cardinality(DOMAIN sh[wc]) + SumLeaves(sh, wcs \ {wc})

TotalLeaves(sh) == SumLeaves(sh, DOMAIN sh)

(***************************************************************************)
(* Shard topology: the calls.                                              *)
(***************************************************************************)
\* what the caller of the last call saw: the call and the shape of its return
\* value (the unit of a Result<()>, whether an Option is Some, the length of a
\* Vec, the number of keys of a map)
Last(op, res) == [op |-> op, res |-> res]

IsSome(res) == IF res.tag = "Ok" THEN Ok(res.val # None) ELSE res

LenOf(res) == IF res.tag = "Ok" THEN Ok(Len(res.val)) ELSE res

KeyCount(res) == IF res.tag = "Ok" THEN Ok(Cardinality(DOMAIN res.val)) ELSE res

Mutate(op, out) ==
    /\ TotalLeaves(out.shards) <= MaxLeaves
    /\ shards' = out.shards
    /\ last' = Last(op, out.res)
    /\ UNCHANGED <<debug_build, kb_vars, cn_vars, sd_vars>>

Query(op, res) ==
    /\ last' = Last(op, res)
    /\ UNCHANGED <<debug_build, kb_vars, shards, cn_vars, sd_vars>>

AddWorkchain(workchain_id, params) ==
    Mutate("add_workchain",
           add_workchain(shards, workchain_id, params.reg_mc_seqno,
                         params.zerostate_root_hash, params.zerostate_file_hash,
                         params.collators))

SplitShard(shard, splitter) ==
    Mutate("split_shard", split_shard(shards, shard, splitter))

MergeShards(shard, merger) ==
    Mutate("merge_shards", merge_shards(shards, shard, merger))

UpdateShard(shard, mutator) ==
    Mutate("update_shard", update_shard(shards, shard, mutator))

FindShard(shard) == Query("find_shard", IsSome(find_shard(shards, shard)))

GetShard(shard) == Query("get_shard", IsSome(get_shard(shards, shard)))

GetNeighbours(shard) == Query("get_neighbours", LenOf(get_neighbours(shards, shard)))

GetNewShards == Query("get_new_shards", KeyCount(get_new_shards(shards)))

NextShards ==
    \/ \E wc \in Workchains, params \in WorkchainParams : AddWorkchain(wc, params)
    \/ \E shard \in ShardIdents, splitter \in SplitterResults : SplitShard(shard, splitter)
    \/ \E shard \in ShardIdents, merger \in MergerResults : MergeShards(shard, merger)
    \/ \E shard \in ShardIdents, mutator \in MutatorResults : UpdateShard(shard, mutator)
    \/ \E shard \in ShardIdents : FindShard(shard)
    \/ \E shard \in ShardIdents : GetShard(shard)
    \/ \E shard \in ShardIdents : GetNeighbours(shard)
    \/ GetNewShards

(***************************************************************************)
(* Shard topology: calc_shard_cc_seqno.                                    *)
(***************************************************************************)
\* next_catchain_seqno of the descriptors the splitter closures return
CcSeqnos == {U32(0, 1), U32(0, 2), U32Max}

CcDescr(cc) == [DefaultShardDescr EXCEPT !.next_catchain_seqno = cc]

CcSplitterResults == {Err} \cup {Ok(<<CcDescr(l), CcDescr(r)>>) : l, r \in CcSeqnos}

\* the shards calc_shard_cc_seqno is asked about
CcShardIdents ==
    ShardIdents \cup {ShardFull(MASTERCHAIN_ID), ShardFull(INVALID_WORKCHAIN_ID)}

CalcShardCcSeqno(shard) ==
    Query("calc_shard_cc_seqno",
          [calc_shard_cc_seqno(shards, shard, debug_build) EXCEPT !.val = shard])

NextCcSeqno ==
    \/ \E wc \in Workchains, params \in WorkchainParams : AddWorkchain(wc, params)
    \/ \E shard \in ShardIdents, splitter \in CcSplitterResults : SplitShard(shard, splitter)
    \/ \E shard \in CcShardIdents : CalcShardCcSeqno(shard)

(***************************************************************************)
(* Shard topology: the two ways to register a workchain.                   *)
(***************************************************************************)
McStateExtraAddWorkchain(workchain_id, descr) ==
    Mutate("McStateExtra::add_workchain",
           McStateExtra_add_workchain(shards, workchain_id, descr))

NextRegister ==
    \/ \E wc \in Workchains, params \in WorkchainParams : AddWorkchain(wc, params)
    \/ \E wc \in Workchains, descr \in DescrPool : McStateExtraAddWorkchain(wc, descr)
    \/ \E shard \in ShardIdents, splitter \in SplitterResults : SplitShard(shard, splitter)
    \/ \E shard \in ShardIdents, merger \in MergerResults : MergeShards(shard, merger)
    \/ \E shard \in ShardIdents, mutator \in MutatorResults : UpdateShard(shard, mutator)

(***************************************************************************)
(* Counters: inputs of the calls and the calls.                            *)
(***************************************************************************)
\* count arguments of increase_by: 0, 1, 2^32 - 1, 2^32 and 2^64 - 1
Counts == {U64Zero, U64One, U64(0, 0, Limb - 1, Limb - 1), U64(0, 1, 0, 0), U64Max}

\* now arguments of increase_by: 0, 1, 1 + 2048, 1 + 2048 + 48 * 2048
Nows == {U32(0, 0), U32(0, 1), U32(0, 2049), U32(1, 34817)}

\* values read_from can load: it takes the four fields as they come
LoadedCounters ==
    {Counters(U32(0, 0), U64Zero, U64One, U64Zero),
     Counters(U32(0, 0), U64One, U64Zero, U64Zero),
     Counters(U32(0, 1), U64Max, U64Zero, U64Zero),
     Counters(U32(0, 1), U64One, U64Max, U64Zero),
     Counters(U32(0, 1), U64One, U64Zero, U64Max),
     Counters(U32(0, 1), U64One, U64(0, 1, 0, 0), U64(0, 1, 0, 0))}

CnLast(op, count, now, ret) == [op |-> op, count |-> count, now |-> now, ret |-> ret]

\* Counters::increase_by
IncreaseBy(count, now) ==
    LET out == increase_by(counters, count, now, debug_build)
    IN  /\ out.counters # counters => cn_calls < MaxCalls
        /\ counters' = out.counters
        /\ cn_calls' = IF out.counters # counters THEN cn_calls + 1 ELSE cn_calls
        /\ cn_last' = CnLast("increase_by", count, now, out.ret)
        /\ UNCHANGED <<debug_build, kb_vars, sh_vars, cn_loaded, sd_vars>>

\* Deserializable::read_from for Counters
CountersReadFrom(c) ==
    /\ cn_calls < MaxCalls
    /\ counters' = c
    /\ cn_calls' = cn_calls + 1
    /\ cn_loaded' = TRUE
    /\ cn_last' = CnLast("read_from", U64Zero, U32(0, 0), "true")
    /\ UNCHANGED <<debug_build, kb_vars, sh_vars, sd_vars>>

NextCounters ==
    \/ \E count \in Counts, now \in Nows : IncreaseBy(count, now)
    \/ \E c \in LoadedCounters : CountersReadFrom(c)

(***************************************************************************)
(* Counters: almost_equals and almost_zero.                                *)
(***************************************************************************)
\* decayed sums at both ends of the 64-bit range: 0, 1, 2, 2^64 - 2, 2^64 - 1
AlmostSums ==
    {U64Zero, U64One, U64(0, 0, 0, 2), U64(Limb - 1, Limb - 1, Limb - 1, Limb - 2), U64Max}

\* the values compared
AlmostCounters ==
    {Counters(U32(0, 1), U64One, a, b) : a, b \in AlmostSums}
        \cup {Counters(U32(0, 2), U64One, U64One, U64One),
              Counters(U32(0, 1), U64(0, 0, 0, 2), U64One, U64One)}

AlmostEquals(other) ==
    /\ cn_last' = CnLast("almost_equals", other.cnt2048, other.last_updated,
                         almost_equals(counters, other, debug_build))
    /\ UNCHANGED <<debug_build, kb_vars, sh_vars, counters, cn_calls, cn_loaded, sd_vars>>

AlmostZero ==
    /\ cn_last' = CnLast("almost_zero", U64Zero, U32(0, 0), BoolOf(almost_zero(counters)))
    /\ UNCHANGED <<debug_build, kb_vars, sh_vars, counters, cn_calls, cn_loaded, sd_vars>>

NextAlmost ==
    \/ \E c \in AlmostCounters : CountersReadFrom(c)
    \/ \E other \in AlmostCounters : AlmostEquals(other)
    \/ AlmostZero

(***************************************************************************)
(* Wire formats.  A cell is the sequence of the values appended to it,     *)
(* each with the width or the type it was written as, and the sequence of  *)
(* the cells it references.  A builder is the Result of the writes so far: *)
(* after a failed write every later write is skipped, as with `?`.  A      *)
(* reader state is the Result of the reads so far: the values read, in     *)
(* order, and the rest of the slice.  A value is taken from the front of   *)
(* a slice only as what it was written as; anything else, and the end of   *)
(* the slice, is a failure.  The structures of other files                 *)
(* (CurrencyCollection, ProofChain, CopyleftRewards, MeshOutDescr,         *)
(* ValidatorsStat, ...) are single values of their type; Option<T> is a    *)
(* presence bit followed by the value.                                     *)
(*                                                                         *)
(* The({e : v \in {s}}) is e with v standing for the value of s, computed  *)
(* once.                                                                   *)
(***************************************************************************)
The(S) == CHOOSE v \in S : TRUE

Cell(data, refs) == [data |-> data, refs |-> refs]

\* BuilderData::new
NewBuilder == Ok(Cell(<<>>, <<>>))

\* fail!(...) in a writer: the builder stays as the writes before it left it
Failed(b) == [tag |-> "Err", val |-> b.val]

\* append_bits, append_u8, append_u16, T::write_to of a primitive or opaque T
append(b, kind, value) ==
    The({IF v.tag # "Ok" THEN v
         ELSE Ok([v.val EXCEPT !.data = Append(@, <<kind, value>>)]) : v \in {b}})

\* checked_append_reference(child.into_cell()?)
append_reference(b, child) ==
    The({IF v.tag # "Ok" THEN v
         ELSE IF c.tag # "Ok" THEN Failed(v)
         ELSE Ok([v.val EXCEPT !.refs = Append(@, c.val)]) : v \in {b}, c \in {child}})

\* one value of the given kind after the other
append_each(b, kind, values) ==
    The({IF v.tag # "Ok" THEN v
         ELSE Ok([v.val EXCEPT !.data = @ \o [i \in 1..Len(s) |-> <<kind, s[i]>>]]) :
         v \in {b}, s \in {values}})

\* one <<kind, value>> after the other
append_all(b, values) ==
    The({IF v.tag # "Ok" THEN v
         ELSE Ok([v.val EXCEPT !.data = @ \o s]) : v \in {b}, s \in {values}})

\* a reader state: the values read so far and the rest of the slice
Rd(values, slice) == Ok([value |-> values, slice |-> slice])

\* the value read last
top(p) == p.val.value[Len(p.val.value)]

\* the n values read last
lastn(p, n) == SubSeq(p.val.value, Len(p.val.value) - n + 1, Len(p.val.value))

\* the n values read last made into one
fold(p, n, value) ==
    Rd(SubSeq(p.val.value, 1, Len(p.val.value) - n) \o <<value>>, p.val.slice)

\* a value that is not read from the slice
push(p, value) ==
    The({IF v.tag # "Ok" THEN v ELSE Rd(Append(v.val.value, value), v.val.slice) :
         v \in {p}})

\* get_next_int, get_next_u16, get_next_bit, T::read_from of a primitive or opaque T
get_next(p, kind) ==
    The({IF v.tag # "Ok" THEN v
         ELSE IF Len(v.val.slice.data) > 0 /\ v.val.slice.data[1][1] = kind
         THEN Rd(Append(v.val.value, v.val.slice.data[1][2]),
                 [v.val.slice EXCEPT !.data = Tail(@)])
         ELSE Err : v \in {p}})

\* the values of the given kinds, read one after the other
get_each(p, kinds) ==
    The({IF v.tag # "Ok" THEN v
         ELSE IF /\ Len(v.val.slice.data) >= Len(k)
                 /\ \A i \in 1..Len(k) : v.val.slice.data[i][1] = k[i]
         THEN Rd(v.val.value \o [i \in 1..Len(k) |-> v.val.slice.data[i][2]],
                 [v.val.slice EXCEPT !.data = SubSeq(@, Len(k) + 1, Len(@))])
         ELSE Err : v \in {p}, k \in {kinds}})

\* SliceData::load_cell(slice.checked_drain_reference()?): the cell is the value read
drain_reference(p) ==
    The({IF v.tag # "Ok" THEN v
         ELSE IF Len(v.val.slice.refs) > 0
         THEN Rd(Append(v.val.value, Head(v.val.slice.refs)),
                 [v.val.slice EXCEPT !.refs = Tail(@)])
         ELSE Err : v \in {p}})

\* Deserializable::construct_from: the value read from a slice, nothing read before
construct(p) == The({IF v.tag # "Ok" THEN Err ELSE Ok(top(v)) : v \in {p}})

\* serialization options, as the set of the option bits that are set
SERDE_OPTS_EMPTY == {}
SERDE_OPTS_MEMPOOL_NODES == {"MEMPOOL_NODES"}
SERDE_OPTS_COMMON_MESSAGE == {"COMMON_MESSAGE"}

\* Option<T>::write_to of an opaque T
Maybe_write_to(b, kind, o) ==
    IF o = None THEN append(b, "bit", 0)
    ELSE append(append(b, "bit", 1), kind, o[1])

\* Option<T>::read_from of an opaque T
Maybe_read_from(p, kind) ==
    The({IF bit.tag # "Ok" THEN bit
         ELSE IF top(bit) = 0 THEN fold(bit, 1, None)
         ELSE The({IF v.tag # "Ok" THEN v ELSE fold(v, 2, Some(top(v))) :
                   v \in {get_next(bit, kind)}}) :
         bit \in {get_next(p, "bit")}})

(***************************************************************************)
(* CollatorRange and ShardCollators.                                       *)
(***************************************************************************)
MEMPOOL_MAX_LEN == 9

CollatorRange(collator, mempool, start, finish) ==
    [collator |-> collator, mempool |-> mempool, start |-> start, finish |-> finish]

DefaultCollatorRange == CollatorRange(0, <<>>, 0, 0)

\* CollatorRange::write_with_opts
CollatorRange_write_with_opts(b, r, opts) ==
    The({IF v.tag # "Ok" THEN v
         ELSE IF Len(r.mempool) > MEMPOOL_MAX_LEN THEN Failed(v)
         ELSE LET b1 == append(v, "u16", r.collator)
                  b2 == IF opts \cap SERDE_OPTS_MEMPOOL_NODES # {}
                        THEN append_each(append(b1, "u8", Len(r.mempool)),
                                         "u16", r.mempool)
                        ELSE b1
              IN  append(append(b2, "u32", r.start), "u32", r.finish) :
         v \in {b}})

\* Option<CollatorRange>::write_with_opts
MaybeRange_write_with_opts(b, o, opts) ==
    IF o = None THEN append(b, "bit", 0)
    ELSE CollatorRange_write_with_opts(append(b, "bit", 1), o[1], opts)

\* the mempool of CollatorRange::construct_from_with_opts
read_mempool(p) ==
    The({IF len.tag # "Ok" THEN len
         ELSE IF top(len) > MEMPOOL_MAX_LEN THEN Err
         ELSE The({IF v.tag # "Ok" THEN v
                   ELSE fold(v, top(len) + 1, lastn(v, top(len))) :
                   v \in {get_each(len, [i \in 1..top(len) |-> "u16"])}}) :
         len \in {get_next(p, "u8")}})

\* CollatorRange::construct_from_with_opts
CollatorRange_construct_from_with_opts(p, opts) ==
    LET collator == get_next(p, "u16")
        mempool == IF opts \cap SERDE_OPTS_MEMPOOL_NODES # {}
                   THEN read_mempool(collator)
                   ELSE push(collator, <<>>)
    IN  The({IF v.tag # "Ok" THEN v
             ELSE LET f == lastn(v, 4)
                  IN  fold(v, 4, CollatorRange(f[1], f[2], f[3], f[4])) :
             v \in {get_each(mempool, <<"u32", "u32">>)}})

\* Option<CollatorRange>::construct_from_with_opts
MaybeRange_construct_from_with_opts(p, opts) ==
    The({IF bit.tag # "Ok" THEN bit
         ELSE IF top(bit) = 0 THEN fold(bit, 1, None)
         ELSE The({IF v.tag # "Ok" THEN v ELSE fold(v, 2, Some(top(v))) :
                   v \in {CollatorRange_construct_from_with_opts(bit, opts)}}) :
         bit \in {get_next(p, "bit")}})

ShardCollators(prev, prev2, current, next, next2, updated_at, stat) ==
    [prev |-> prev, prev2 |-> prev2, current |-> current, next |-> next,
     next2 |-> next2, updated_at |-> updated_at, stat |-> stat]

DefaultShardCollators ==
    ShardCollators(DefaultCollatorRange, None, DefaultCollatorRange,
                   DefaultCollatorRange, None, 0, <<>>)

SHARD_COLLATORS_TAG == 1
SHARD_COLLATORS_TAG_2 == 2

\* ShardCollators::write_to
ShardCollators_write_to(b, x) ==
    LET tag  == IF x.stat = <<>> THEN SHARD_COLLATORS_TAG ELSE SHARD_COLLATORS_TAG_2
        opts == IF x.stat = <<>> THEN SERDE_OPTS_EMPTY ELSE SERDE_OPTS_MEMPOOL_NODES
        b0 == append(b, "bits4", tag)
        b1 == CollatorRange_write_with_opts(b0, x.prev, opts)
        b2 == MaybeRange_write_with_opts(b1, x.prev2, opts)
        b3 == CollatorRange_write_with_opts(b2, x.current, opts)
        b4 == CollatorRange_write_with_opts(b3, x.next, opts)
        b5 == MaybeRange_write_with_opts(b4, x.next2, opts)
        b6 == append(b5, "u32", x.updated_at)
    IN  IF x.stat # <<>>
        THEN append_reference(b6, append(NewBuilder, "ValidatorsStat", x.stat))
        ELSE b6

\* the stat of ShardCollators::construct_from
read_stat(p, tag) ==
    IF tag # SHARD_COLLATORS_TAG_2 THEN push(p, <<>>)
    ELSE The({IF ref.tag # "Ok" THEN ref
              ELSE The({IF s.tag # "Ok" THEN Err ELSE fold(ref, 1, top(s)) :
                        s \in {get_next(Rd(<<>>, top(ref)), "ValidatorsStat")}}) :
              ref \in {drain_reference(p)}})

\* ShardCollators::construct_from
ShardCollators_construct_from(p) ==
    The({IF tag.tag # "Ok" THEN tag
         ELSE IF top(tag) \notin {SHARD_COLLATORS_TAG, SHARD_COLLATORS_TAG_2} THEN Err
         ELSE
         LET opts == IF top(tag) = SHARD_COLLATORS_TAG_2
                     THEN SERDE_OPTS_MEMPOOL_NODES ELSE SERDE_OPTS_EMPTY
             prev == CollatorRange_construct_from_with_opts(tag, opts)
             prev2 == MaybeRange_construct_from_with_opts(prev, opts)
             current == CollatorRange_construct_from_with_opts(prev2, opts)
             next == CollatorRange_construct_from_with_opts(current, opts)
             next2 == MaybeRange_construct_from_with_opts(next, opts)
             updated_at == get_next(next2, "u32")
         IN  The({IF v.tag # "Ok" THEN v
                  ELSE LET f == lastn(v, 7)
                       IN  fold(v, 8, ShardCollators(f[1], f[2], f[3], f[4],
                                                     f[5], f[6], f[7])) :
                  v \in {read_stat(updated_at, top(tag))}}) :
         tag \in {get_next(p, "bits4")}})

(***************************************************************************)
(* ShardDescr.                                                             *)
(***************************************************************************)
SHARD_IDENT_TAG_A == 10
SHARD_IDENT_TAG_B == 11
SHARD_IDENT_TAG_C == 12
SHARD_IDENT_TAG_D == 13
SHARD_IDENT_TAG_E == 14
SHARD_IDENT_TAG_F == 15
SHARD_IDENT_TAG_G == 9

SHARD_IDENT_TAGS ==
    {SHARD_IDENT_TAG_A, SHARD_IDENT_TAG_B, SHARD_IDENT_TAG_C, SHARD_IDENT_TAG_D,
     SHARD_IDENT_TAG_E, SHARD_IDENT_TAG_F, SHARD_IDENT_TAG_G}

\* bit n of a byte
BitOf(byte, n) == (byte \div Pow2(n)) % 2

\* Option<ShardCollators>::write_to
MaybeCollators_write_to(b, o) ==
    IF o = None THEN append(b, "bit", 0)
    ELSE ShardCollators_write_to(append(b, "bit", 1), o[1])

\* Option<ShardCollators>::read_from
MaybeCollators_read_from(p) ==
    The({IF bit.tag # "Ok" THEN bit
         ELSE IF top(bit) = 0 THEN fold(bit, 1, None)
         ELSE The({IF v.tag # "Ok" THEN v ELSE fold(v, 2, Some(top(v))) :
                   v \in {ShardCollators_construct_from(bit)}}) :
         bit \in {get_next(p, "bit")}})

\* the tag ShardDescr::write_to chooses
ShardDescr_tag(x) ==
    IF x.pack_info # None THEN SHARD_IDENT_TAG_G
    ELSE IF x.mesh_msg_queues # <<>> THEN SHARD_IDENT_TAG_F
    ELSE IF x.collators # None THEN SHARD_IDENT_TAG_E
    ELSE IF x.proof_chain # None THEN SHARD_IDENT_TAG_D
    ELSE IF x.copyleft_rewards # <<>> THEN SHARD_IDENT_TAG_C
    ELSE SHARD_IDENT_TAG_A

\* the flags byte ShardDescr::write_to builds
ShardDescr_flags_byte(x) ==
      (IF x.before_split THEN Pow2(7) ELSE 0)
    + (IF x.before_merge THEN Pow2(6) ELSE 0)
    + (IF x.want_split THEN Pow2(5) ELSE 0)
    + (IF x.want_merge THEN Pow2(4) ELSE 0)
    + (IF x.nx_cc_updated THEN Pow2(3) ELSE 0)

\* the child cell of ShardDescr::write_to
ShardDescr_write_child(x, tag) ==
    LET c0 == append(append(NewBuilder, "CurrencyCollection", x.fees_collected),
                     "CurrencyCollection", x.funds_created)
    IN  IF tag \in {SHARD_IDENT_TAG_E, SHARD_IDENT_TAG_F, SHARD_IDENT_TAG_G}
        THEN IF x.copyleft_rewards # <<>> THEN Failed(c0)
             ELSE LET c1 == Maybe_write_to(c0, "ProofChain", x.proof_chain)
                      c2 == MaybeCollators_write_to(c1, x.collators)
                  IN  IF tag = SHARD_IDENT_TAG_G
                      THEN append_reference(c2,
                               Maybe_write_to(NewBuilder, "MsgPackProcessingInfo", x.pack_info))
                      ELSE c2
        ELSE IF tag = SHARD_IDENT_TAG_D
        THEN IF x.proof_chain = None THEN Failed(c0)
             ELSE LET c1 == IF x.copyleft_rewards # <<>>
                            THEN append(append(c0, "bit", 1),
                                        "CopyleftRewards", x.copyleft_rewards)
                            ELSE append(c0, "bit", 0)
                  IN  append(c1, "ProofChain", x.proof_chain[1])
        ELSE IF tag = SHARD_IDENT_TAG_C
        THEN append(c0, "CopyleftRewards", x.copyleft_rewards)
        ELSE c0

\* ShardDescr::write_to
ShardDescr_write_to(b, x) ==
    LET tag == ShardDescr_tag(x)
        b1 == append_all(b,
                  << <<"bits4", tag>>, <<"u32", x.seq_no>>, <<"u32", x.reg_mc_seqno>>,
                     <<"u64", x.start_lt>>, <<"u64", x.end_lt>>,
                     <<"u256", x.root_hash>>, <<"u256", x.file_hash>> >>)
    IN  IF x.flags % Pow2(3) # 0 THEN Failed(b1)
        ELSE
        LET b2 == append_all(b1,
                      << <<"u8", ShardDescr_flags_byte(x)>>,
                         <<"u32", x.next_catchain_seqno>>,
                         <<"u64", x.next_validator_shard>>,
                         <<"u32", x.min_ref_mc_seqno>>, <<"u32", x.gen_utime>>,
                         <<"FutureSplitMerge", x.split_merge_at>> >>)
            b3 == append_reference(b2, ShardDescr_write_child(x, tag))
        IN  IF x.mesh_msg_queues # <<>>
            THEN append(b3, "MeshOutDescr", x.mesh_msg_queues)
            ELSE b3

\* the match on the tag in ShardDescr::read_from, for the tags with a child
\* cell: the value read is self with the fields of the child cell
ShardDescr_read_child(self, slice1, tag) ==
    The({IF f.tag # "Ok" THEN f ELSE
         LET self1 == [self EXCEPT !.fees_collected = f.val.value[1],
                                   !.funds_created = f.val.value[2]]
         IN  IF tag = SHARD_IDENT_TAG_A THEN push(f, self1)
             ELSE IF tag = SHARD_IDENT_TAG_C
             THEN The({IF c.tag # "Ok" THEN c
                       ELSE push(c, [self1 EXCEPT !.copyleft_rewards = top(c)]) :
                       c \in {get_next(f, "CopyleftRewards")}})
             ELSE IF tag = SHARD_IDENT_TAG_D
             THEN The({IF bit.tag # "Ok" THEN bit ELSE
                       The({IF p.tag # "Ok" THEN p
                            ELSE push(p, [self1 EXCEPT
                                             !.copyleft_rewards = lastn(p, 2)[1],
                                             !.proof_chain = Some(top(p))]) :
                            p \in {get_next(IF top(bit) = 1
                                            THEN get_next(bit, "CopyleftRewards")
                                            ELSE push(bit, self1.copyleft_rewards),
                                            "ProofChain")}}) :
                       bit \in {get_next(f, "bit")}})
             ELSE \* SHARD_IDENT_TAG_E | SHARD_IDENT_TAG_F | SHARD_IDENT_TAG_G
                  The({IF c.tag # "Ok" THEN c ELSE
                       LET self2 == [self1 EXCEPT !.proof_chain = lastn(c, 2)[1],
                                                  !.collators = top(c)]
                       IN  IF tag # SHARD_IDENT_TAG_G THEN push(c, self2)
                           ELSE The({IF ref2.tag # "Ok" THEN ref2 ELSE
                                     The({IF i.tag # "Ok" THEN i
                                          ELSE push(i, [self2 EXCEPT !.pack_info = top(i)]) :
                                          i \in {Maybe_read_from(Rd(<<>>, top(ref2)),
                                                                 "MsgPackProcessingInfo")}}) :
                                     ref2 \in {drain_reference(c)}}) :
                       c \in {MaybeCollators_read_from(Maybe_read_from(f, "ProofChain"))}}) :
         f \in {get_each(Rd(<<>>, slice1), <<"CurrencyCollection", "CurrencyCollection">>)}})

\* ShardDescr::read_from
ShardDescr_read_from(self, slice) ==
    The({IF h.tag # "Ok" THEN Err
         ELSE IF h.val.value[1] \notin SHARD_IDENT_TAGS THEN Err
         ELSE
         LET tag == h.val.value[1]
             flags == h.val.value[8]
             self1 == [self EXCEPT
                          !.seq_no = h.val.value[2], !.reg_mc_seqno = h.val.value[3],
                          !.start_lt = h.val.value[4], !.end_lt = h.val.value[5],
                          !.root_hash = h.val.value[6], !.file_hash = h.val.value[7],
                          !.before_split = BitOf(flags, 7) = 1,
                          !.before_merge = BitOf(flags, 6) = 1,
                          !.want_split = BitOf(flags, 5) = 1,
                          !.want_merge = BitOf(flags, 4) = 1,
                          !.nx_cc_updated = BitOf(flags, 3) = 1,
                          !.next_catchain_seqno = h.val.value[9],
                          !.next_validator_shard = h.val.value[10],
                          !.min_ref_mc_seqno = h.val.value[11],
                          !.gen_utime = h.val.value[12],
                          !.split_merge_at = h.val.value[13]]
         IN  IF flags % Pow2(3) # 0 THEN Err
             ELSE IF tag = SHARD_IDENT_TAG_B
             THEN The({IF f.tag # "Ok" THEN Err
                       ELSE Ok([self1 EXCEPT !.fees_collected = lastn(f, 2)[1],
                                             !.funds_created = top(f)]) :
                       f \in {get_each(h, <<"CurrencyCollection", "CurrencyCollection">>)}})
             ELSE The({IF ref.tag # "Ok" THEN Err ELSE
                       The({IF c.tag # "Ok" THEN Err
                            ELSE IF tag # SHARD_IDENT_TAG_F THEN Ok(top(c))
                            ELSE The({IF m.tag # "Ok" THEN Err
                                      ELSE Ok([top(c) EXCEPT !.mesh_msg_queues = top(m)]) :
                                      m \in {get_next(ref, "MeshOutDescr")}}) :
                            c \in {ShardDescr_read_child(self1, top(ref), tag)}}) :
                       ref \in {drain_reference(h)}}) :
         h \in {get_each(get_each(get_next(Rd(<<>>, slice), "bits4"),
                                  <<"u32", "u32", "u64", "u64", "u256", "u256", "u8">>),
                         <<"u32", "u64", "u32", "u32", "FutureSplitMerge">>)}})

(***************************************************************************)
(* McBlockExtra.                                                           *)
(***************************************************************************)
MC_BLOCK_EXTRA_TAG == 52389
MC_BLOCK_EXTRA_TAG_2 == 56437
MC_BLOCK_EXTRA_TAG_3 == 56438

DefaultMcBlockExtra ==
    [key_block |-> FALSE, shards |-> 0, fees |-> 0, prev_blk_signatures |-> 0,
     recover_create_msg |-> None, copyleft_msgs |-> <<>>, mint_msg |-> None,
     mesh |-> <<>>, config |-> None, validators_stat |-> <<>>,
     serde_opts |-> SERDE_OPTS_EMPTY]

\* the tag of write_with_opts had it no tag for common messages
McBlockExtra_tag_without_common(copyleft, common_message) ==
    IF copyleft THEN MC_BLOCK_EXTRA_TAG_2 ELSE MC_BLOCK_EXTRA_TAG

\* the tag McBlockExtra::write_with_opts chooses
McBlockExtra_tag(copyleft, common_message) ==
    IF copyleft THEN MC_BLOCK_EXTRA_TAG_2
    ELSE IF common_message THEN MC_BLOCK_EXTRA_TAG_3
    ELSE MC_BLOCK_EXTRA_TAG

\* McBlockExtra::write_with_opts
McBlockExtra_write_with_opts(b, x, opts) ==
    LET copyleft == x.copyleft_msgs # <<>>
        common_message == opts \cap SERDE_OPTS_COMMON_MESSAGE # {}
    IN  IF copyleft /\ common_message THEN Failed(b)
        ELSE IF x.mesh # <<>> /\ ~common_message THEN Failed(b)
        ELSE
        LET tag == McBlockExtra_tag(copyleft, common_message)
            b1 == append_all(b,
                      << <<"u16", tag>>, <<"bit", IF x.config # None THEN 1 ELSE 0>>,
                         <<"ShardHashes", x.shards>>, <<"ShardFees", x.fees>> >>)
            c0 == append(NewBuilder, "CryptoSignatures", x.prev_blk_signatures)
            c1 == Maybe_write_to(c0, "InMsg", x.recover_create_msg)
            c2 == Maybe_write_to(c1, "InMsg", x.mint_msg)
            c3 == IF copyleft THEN append(c2, "CopyleftMessages", x.copyleft_msgs)
                  ELSE IF common_message THEN append(c2, "MeshHashesExt", x.mesh)
                  ELSE c2
            b2 == append_reference(b1, c3)
        IN  IF x.config # None THEN append(b2, "ConfigParams", x.config[1]) ELSE b2

\* McBlockExtra::write_to
McBlockExtra_write_to(b, x) == McBlockExtra_write_with_opts(b, x, SERDE_OPTS_EMPTY)

\* the cell McBlockExtra::read_from loads: the value read is self with its fields
McBlockExtra_read_cell1(self, cell1, tag) ==
    The({IF m.tag # "Ok" THEN m ELSE
         LET self1 == [self EXCEPT !.prev_blk_signatures = m.val.value[1],
                                   !.recover_create_msg = m.val.value[2],
                                   !.mint_msg = m.val.value[3]]
         IN  IF tag = MC_BLOCK_EXTRA_TAG_2
             THEN The({IF c.tag # "Ok" THEN c
                       ELSE push(c, [self1 EXCEPT !.copyleft_msgs = top(c)]) :
                       c \in {get_next(m, "CopyleftMessages")}})
             ELSE IF tag = MC_BLOCK_EXTRA_TAG_3
             THEN The({IF h.tag # "Ok" THEN h
                       ELSE push(h, [self1 EXCEPT !.mesh = top(h),
                                                  !.copyleft_msgs = <<>>]) :
                       h \in {get_next(m, "MeshHashesExt")}})
             ELSE push(m, self1) :
         m \in {Maybe_read_from(Maybe_read_from(
                    get_next(Rd(<<>>, cell1), "CryptoSignatures"), "InMsg"), "InMsg")}})

\* McBlockExtra::read_from
McBlockExtra_read_from(self, cell) ==
    The({IF tag.tag # "Ok" THEN Err
         ELSE IF top(tag) \notin
                 {MC_BLOCK_EXTRA_TAG, MC_BLOCK_EXTRA_TAG_2, MC_BLOCK_EXTRA_TAG_3} THEN Err
         ELSE
         The({IF ref.tag # "Ok" THEN Err ELSE
              LET serde_opts == IF top(tag) = MC_BLOCK_EXTRA_TAG_3
                                THEN SERDE_OPTS_COMMON_MESSAGE ELSE SERDE_OPTS_EMPTY
                  key_block == ref.val.value[2] = 1
                  self1 == [self EXCEPT !.serde_opts = serde_opts,
                                        !.shards = ref.val.value[3],
                                        !.fees = ref.val.value[4]]
              IN  The({IF c.tag # "Ok" THEN Err
                       ELSE IF ~key_block THEN Ok([top(c) EXCEPT !.config = None])
                       ELSE The({IF config.tag # "Ok" THEN Err
                                 ELSE Ok([top(c) EXCEPT !.config = Some(top(config))]) :
                                 config \in {get_next(ref, "ConfigParams")}}) :
                       c \in {McBlockExtra_read_cell1(self1, top(ref), top(tag))}}) :
              ref \in {drain_reference(get_each(tag, <<"bit", "ShardHashes", "ShardFees">>))}}) :
         tag \in {get_next(Rd(<<>>, cell), "u16")}})

(***************************************************************************)
(* RefShardBlocks (HashmapE 32 of BinTree<ShardBlockRef>)                  *)
(***************************************************************************)
ShardBlockRef(seq_no, root_hash, file_hash, end_lt) ==
    [seq_no |-> seq_no, root_hash |-> root_hash, file_hash |-> file_hash, end_lt |-> end_lt]

DefaultShardBlockRef == ShardBlockRef(0, 0, 0, 0)

\* ShardBlockRef::with_params
with_params(block_id, end_lt) ==
    ShardBlockRef(block_id.seq_no, block_id.root_hash, block_id.file_hash, end_lt)

\* the first loop of with_ids: wc -> shard -> ShardBlockRef, a later id of a
\* shard replacing an earlier one
RECURSIVE collect_ids(_, _)
collect_ids(ids, ref_shard_blocks) ==
    IF ids = <<>> THEN ref_shard_blocks
    ELSE LET id == Head(ids)[1]
             wc == id.shard_id.workchain_id
             shards_of == IF wc \in DOMAIN ref_shard_blocks THEN ref_shard_blocks[wc]
                          ELSE EmptyMap
         IN  collect_ids(Tail(ids),
                         hm_set(ref_shard_blocks, wc,
                                map_insert(shards_of, id.shard_id, with_params(id, Head(ids)[2]))))

\* the value of a half in the closure given to split: the ShardBlockRef of
\* the half when the ids name it, a default one otherwise
half_val(shards_of, half) ==
    IF half \in DOMAIN shards_of THEN shards_of[half] ELSE DefaultShardBlockRef

\* the while loop of with_ids: the last unfinished key is split, the halves
\* the ids name are taken out of shards_of, the others are unfinished
RECURSIVE fill_bintree(_, _, _)
fill_bintree(bintree, shards_of, unfinished_keys) ==
    IF unfinished_keys = <<>> THEN Ok(<<bintree, shards_of>>)
    ELSE LET key == unfinished_keys[Len(unfinished_keys)]
             rest == SubSeq(unfinished_keys, 1, Len(unfinished_keys) - 1)
             lr == shard_split(key)
         IN  IF shard_key(key) \notin DOMAIN bintree
             THEN fill_bintree(bintree, shards_of, rest)
             ELSE IF lr.tag # "Ok" THEN Err
             ELSE LET left == lr.val[1]
                      right == lr.val[2]
                      out == bt_split(bintree, shard_key(key),
                                      Ok(<<half_val(shards_of, left),
                                           half_val(shards_of, right)>>))
                  IN  fill_bintree(
                          out.tree,
                          [s \in DOMAIN shards_of \ {left, right} |-> shards_of[s]],
                          rest \o (IF left \in DOMAIN shards_of THEN <<>> ELSE <<left>>)
                               \o (IF right \in DOMAIN shards_of THEN <<>> ELSE <<right>>))

\* the bintree with_ids builds for one workchain
bintree_of(wc, shards_of) ==
    IF ShardFull(wc) \in DOMAIN shards_of
    THEN Ok(bt_with_item(shards_of[ShardFull(wc)]))
    ELSE LET filled == fill_bintree(bt_with_item(DefaultShardBlockRef), shards_of,
                                    <<ShardFull(wc)>>)
         IN  IF filled.tag # "Ok" THEN Err
             ELSE IF DOMAIN filled.val[2] # {} THEN Err
             ELSE Ok(filled.val[1])

\* RefShardBlocks::with_ids
with_ids(ids) ==
    The({IF \E wc \in DOMAIN trees : trees[wc].tag # "Ok" THEN Err
         ELSE Ok([wc \in DOMAIN trees |-> trees[wc].val]) :
         trees \in {The({[wc \in DOMAIN ref_shard_blocks |->
                             bintree_of(wc, ref_shard_blocks[wc])] :
                         ref_shard_blocks \in {collect_ids(ids, EmptyMap)}})}})

\* RefShardBlocks::ref_shard_block
ref_shard_block(self, shard_ident) ==
    IF shard_ident.workchain_id \notin DOMAIN self THEN Ok(None)
    ELSE Ok(bt_get(self[shard_ident.workchain_id], shard_key(shard_ident)))

(***************************************************************************)
(* McBlockExtra: copyleft_msgs (CopyleftMessages, a HashmapE 15 from the   *)
(* index to the cell of the message), kept as the map from the indices     *)
(* set to the cells.                                                       *)
(***************************************************************************)
\* InMsg::serialize_with_opts and InRefValue::inner
serialize_with_opts(msg, opts) == <<"InMsg", msg, opts>>

inner(cell) == cell[2]

\* McBlockExtra::write_copyleft_msgs: setref at index i for the i-th message
write_copyleft_msgs(copyleft_msgs, value, opts) ==
    Ok([i \in DOMAIN copyleft_msgs \cup 0..(Len(value) - 1) |->
           IF i < Len(value) THEN serialize_with_opts(value[i + 1], opts)
           ELSE copyleft_msgs[i]])

\* McBlockExtra::read_copyleft_msgs: get at every index below len()
read_copyleft_msgs(copyleft_msgs) ==
    LET len == Cardinality(DOMAIN copyleft_msgs)
    IN  IF \E i \in 0..(len - 1) : i \notin DOMAIN copyleft_msgs THEN Err
        ELSE Ok([i \in 1..len |-> inner(copyleft_msgs[i - 1])])

(***************************************************************************)
(* McStateExtra.                                                           *)
(***************************************************************************)
MC_STATE_EXTRA_TAG == 52262
MC_STATE_CREATE_STATS_FLAG == 1
MC_STATE_COPYLEFT_FLAG == 2
MC_STATE_MESH_FLAG == 4
MC_STATE_VAL_STAT_FLAG == 8

DefaultMcStateExtra ==
    [shards |-> 0, mesh |-> <<>>, config |-> 0, validator_info |-> 0,
     prev_blocks |-> 0, after_key_block |-> FALSE, last_key_block |-> None,
     block_create_stats |-> None, global_balance |-> 0,
     state_copyleft_rewards |-> <<>>, validators_stat |-> <<>>]

\* flags & FLAG != 0, FLAG a single bit
HasFlag(flags, flag) == (flags \div flag) % 2 = 1

\* the flags word with the mesh hashes left out of it
McStateExtra_flags_without_mesh(x) ==
      (IF x.block_create_stats # None THEN MC_STATE_CREATE_STATS_FLAG ELSE 0)
    + (IF x.state_copyleft_rewards # <<>> THEN MC_STATE_COPYLEFT_FLAG ELSE 0)
    + (IF x.validators_stat # <<>> THEN MC_STATE_VAL_STAT_FLAG ELSE 0)

\* the flags word McStateExtra::write_to builds
McStateExtra_flags(x) ==
      (IF x.block_create_stats # None THEN MC_STATE_CREATE_STATS_FLAG ELSE 0)
    + (IF x.state_copyleft_rewards # <<>> THEN MC_STATE_COPYLEFT_FLAG ELSE 0)
    + (IF x.mesh # <<>> THEN MC_STATE_MESH_FLAG ELSE 0)
    + (IF x.validators_stat # <<>> THEN MC_STATE_VAL_STAT_FLAG ELSE 0)

\* McStateExtra::write_to
McStateExtra_write_to(b, x) ==
    IF x.state_copyleft_rewards # <<>> /\ x.validators_stat # <<>> THEN Failed(b)
    ELSE
    LET b1 == append_all(b, << <<"u16", MC_STATE_EXTRA_TAG>>,
                               <<"ShardHashes", x.shards>>,
                               <<"ConfigParams", x.config>> >>)
        c0 == append_all(NewBuilder,
                  << <<"u16", McStateExtra_flags(x)>>,
                     <<"ValidatorInfo", x.validator_info>>,
                     <<"OldMcBlocksInfo", x.prev_blocks>>,
                     <<"bit", IF x.after_key_block THEN 1 ELSE 0>> >>)
        c1 == Maybe_write_to(c0, "ExtBlkRef", x.last_key_block)
        c2 == IF x.block_create_stats # None
              THEN append(c1, "BlockCreateStats", x.block_create_stats[1]) ELSE c1
        c3 == IF x.state_copyleft_rewards # <<>>
              THEN append(c2, "CopyleftRewards", x.state_copyleft_rewards) ELSE c2
        c4 == IF x.mesh # <<>> THEN append(c3, "MeshHashes", x.mesh) ELSE c3
        c5 == IF x.validators_stat # <<>>
              THEN append(c4, "ValidatorsStat", x.validators_stat) ELSE c4
    IN  append(append_reference(b1, c5), "CurrencyCollection", x.global_balance)

\* the cell McStateExtra::read_from loads: the value read is self with its fields
McStateExtra_read_cell1(self, cell1) ==
    The({IF flags.tag # "Ok" THEN flags
         ELSE IF top(flags) > 15 THEN Err
         ELSE
         LET f == get_each(flags, <<"ValidatorInfo", "OldMcBlocksInfo", "bit">>)
             last_key_block == Maybe_read_from(f, "ExtBlkRef")
             stats == IF ~HasFlag(top(flags), MC_STATE_CREATE_STATS_FLAG)
                      THEN push(last_key_block, None)
                      ELSE The({IF s.tag # "Ok" THEN s ELSE fold(s, 1, Some(top(s))) :
                                s \in {get_next(last_key_block, "BlockCreateStats")}})
             flag_copileft == HasFlag(top(flags), MC_STATE_COPYLEFT_FLAG)
             flag_val_stat == HasFlag(top(flags), MC_STATE_VAL_STAT_FLAG)
         IN  The({IF s.tag # "Ok" THEN s
                  ELSE IF flag_copileft /\ flag_val_stat THEN Err
                  ELSE
                  LET copyleft == IF flag_copileft THEN get_next(s, "CopyleftRewards")
                                  ELSE push(s, self.state_copyleft_rewards)
                      mesh == IF HasFlag(top(flags), MC_STATE_MESH_FLAG)
                              THEN get_next(copyleft, "MeshHashes")
                              ELSE push(copyleft, self.mesh)
                      val_stat == IF flag_val_stat THEN get_next(mesh, "ValidatorsStat")
                                  ELSE push(mesh, self.validators_stat)
                  IN  The({IF v.tag # "Ok" THEN v
                           ELSE push(v, [self EXCEPT
                                            !.validator_info = v.val.value[2],
                                            !.prev_blocks = v.val.value[3],
                                            !.after_key_block = v.val.value[4] = 1,
                                            !.last_key_block = v.val.value[5],
                                            !.block_create_stats = v.val.value[6],
                                            !.state_copyleft_rewards = v.val.value[7],
                                            !.mesh = v.val.value[8],
                                            !.validators_stat = v.val.value[9]]) :
                           v \in {val_stat}}) :
                  s \in {stats}}) :
         flags \in {get_next(Rd(<<>>, cell1), "u16")}})

\* McStateExtra::read_from
McStateExtra_read_from(self, cell) ==
    The({IF ref.tag # "Ok" THEN Err
         ELSE IF ref.val.value[1] # MC_STATE_EXTRA_TAG THEN Err
         ELSE
         LET self1 == [self EXCEPT !.shards = ref.val.value[2],
                                   !.config = ref.val.value[3]]
         IN  The({IF c.tag # "Ok" THEN Err ELSE
                  The({IF balance.tag # "Ok" THEN Err
                       ELSE Ok([top(c) EXCEPT !.global_balance = top(balance)]) :
                       balance \in {get_next(ref, "CurrencyCollection")}}) :
                  c \in {McStateExtra_read_cell1(self1, top(ref))}}) :
         ref \in {drain_reference(get_each(get_next(Rd(<<>>, cell), "u16"),
                                           <<"ShardHashes", "ConfigParams">>))}})

(***************************************************************************)
(* Wire formats: the values written and the calls.  One value is written   *)
(* to a new builder and the cell is read back into a default value; a      *)
(* reader is also given a written cell with its tag, its flags word or a   *)
(* length byte replaced by one it has to reject.                           *)
(***************************************************************************)
Serde(type, stage, x, opts, written, read) ==
    [type |-> type, stage |-> stage, x |-> x, opts |-> opts,
     written |-> written, read |-> read]

NoSerde == Serde("none", "none", None, SERDE_OPTS_EMPTY, Err, Err)

\* the values of a cell with the first one of the given kind replaced
replace_first(data, kind, value) ==
    LET first == CHOOSE i \in 1..Len(data) :
                     data[i][1] = kind /\ \A j \in 1..(i - 1) : data[j][1] # kind
    IN  [data EXCEPT ![first] = <<kind, value>>]

\* mempools of 0, 1, MEMPOOL_MAX_LEN and MEMPOOL_MAX_LEN + 1 validators
Mempools ==
    {[i \in 1..n |-> 100 + i] : n \in {0, 1, MEMPOOL_MAX_LEN, MEMPOOL_MAX_LEN + 1}}

ShardCollatorsPool ==
    {ShardCollators(CollatorRange(1, m1, 10, 20), prev2,
                    CollatorRange(2, m2, 20, 30), CollatorRange(3, <<>>, 30, 40),
                    next2, 5, stat) :
        m1 \in Mempools, m2 \in Mempools,
        prev2 \in {None, Some(CollatorRange(4, <<104>>, 0, 10))},
        next2 \in {None, Some(CollatorRange(5, <<>>, 40, 50))},
        stat \in {<<>>, <<1>>}}

\* length bytes above MEMPOOL_MAX_LEN
LongLens == {MEMPOOL_MAX_LEN + 1, Pow2(8) - 1}

ShardDescrPool ==
    {[DefaultShardDescr EXCEPT
         !.seq_no = 3, !.start_lt = 7, !.end_lt = 9, !.root_hash = 11,
         !.before_split = before_split, !.nx_cc_updated = ~before_split,
         !.flags = flags, !.copyleft_rewards = copyleft_rewards,
         !.proof_chain = proof_chain, !.collators = collators,
         !.mesh_msg_queues = mesh_msg_queues, !.pack_info = pack_info] :
        before_split \in BOOLEAN, flags \in {0, 1, Pow2(3)},
        copyleft_rewards \in {<<>>, <<1>>}, proof_chain \in {None, Some(1)},
        collators \in {None, Some(ShardCollators(CollatorRange(1, <<101>>, 10, 20), None,
                                                 CollatorRange(2, <<>>, 20, 30),
                                                 CollatorRange(3, <<>>, 30, 40),
                                                 None, 5, <<1>>))},
        mesh_msg_queues \in {<<>>, <<1>>}, pack_info \in {None, Some(1)}}

McBlockExtraPool ==
    {[DefaultMcBlockExtra EXCEPT
         !.shards = 1, !.fees = 2, !.recover_create_msg = recover_create_msg,
         !.copyleft_msgs = copyleft_msgs, !.mesh = mesh, !.config = config,
         !.validators_stat = validators_stat, !.serde_opts = serde_opts] :
        recover_create_msg \in {None, Some(1)}, copyleft_msgs \in {<<>>, <<1>>},
        mesh \in {<<>>, <<1>>}, config \in {None, Some(1)},
        validators_stat \in {<<>>, <<1>>},
        serde_opts \in {SERDE_OPTS_EMPTY, SERDE_OPTS_COMMON_MESSAGE}}

\* tags McBlockExtra does not have
OtherTags == {0, MC_BLOCK_EXTRA_TAG - 1, MC_BLOCK_EXTRA_TAG_3 + 1, MC_STATE_EXTRA_TAG}

McStateExtraPool ==
    {[DefaultMcStateExtra EXCEPT
         !.shards = 1, !.global_balance = 2, !.after_key_block = after_key_block,
         !.last_key_block = last_key_block,
         !.block_create_stats = block_create_stats,
         !.state_copyleft_rewards = state_copyleft_rewards, !.mesh = mesh,
         !.validators_stat = validators_stat] :
        after_key_block \in BOOLEAN, last_key_block \in {None, Some(1)},
        block_create_stats \in {None, Some(1)},
        state_copyleft_rewards \in {<<>>, <<1>>}, mesh \in {<<>>, <<1>>},
        validators_stat \in {<<>>, <<1>>}}

\* flags words with bit1 and bit3 both set, or with a bit above bit3 set
BadFlags ==
    {f \in 0..(Pow2(5) - 1) \cup {Pow2(16) - 1} :
        \/ HasFlag(f, MC_STATE_COPYLEFT_FLAG) /\ HasFlag(f, MC_STATE_VAL_STAT_FLAG)
        \/ f >= Pow2(4)}

\* x.write_to(&mut BuilderData::new()), or write_with_opts for McBlockExtra
Write(type, x, opts, written) ==
    /\ serde.stage = "none"
    /\ serde' = Serde(type, "written", x, opts, written, Err)
    /\ UNCHANGED <<debug_build, kb_vars, sh_vars, cn_vars>>

\* read_from or construct_from of the cell written, or of the cell given
Read(type, stage, cell, read) ==
    /\ serde.type = type
    /\ serde.stage = "written"
    /\ serde.written.tag = "Ok"
    /\ serde' = [serde EXCEPT !.stage = stage, !.written = Ok(cell), !.read = read]
    /\ UNCHANGED <<debug_build, kb_vars, sh_vars, cn_vars>>

WriteShardCollators(x) ==
    Write("ShardCollators", x, SERDE_OPTS_EMPTY, ShardCollators_write_to(NewBuilder, x))

ReadShardCollators ==
    Read("ShardCollators", "read", serde.written.val,
         construct(ShardCollators_construct_from(Rd(<<>>, serde.written.val))))

\* construct_from of a cell whose first length byte is above MEMPOOL_MAX_LEN
ReadShardCollatorsLong(len) ==
    /\ serde.type = "ShardCollators"
    /\ serde.x.stat # <<>>
    /\ LET cell == [serde.written.val EXCEPT !.data = replace_first(@, "u8", len)]
       IN  Read("ShardCollators", "read_long", cell,
                construct(ShardCollators_construct_from(Rd(<<>>, cell))))

WriteShardDescr(x) ==
    Write("ShardDescr", x, SERDE_OPTS_EMPTY, ShardDescr_write_to(NewBuilder, x))

ReadShardDescr ==
    Read("ShardDescr", "read", serde.written.val,
         ShardDescr_read_from(DefaultShardDescr, serde.written.val))

\* receivers of ShardDescr::read_from: a default value and one that already
\* holds copyleft rewards, a proof chain, collators, mesh queues and pack info
ShardDescrReceivers ==
    {DefaultShardDescr,
     [DefaultShardDescr EXCEPT
         !.copyleft_rewards = <<2>>, !.proof_chain = Some(2),
         !.collators = Some(DefaultShardCollators),
         !.mesh_msg_queues = <<2>>, !.pack_info = Some(2)]}

\* read_from on a value in use
ReadShardDescrInto(self) ==
    Read("ShardDescr", "read_into", serde.written.val,
         ShardDescr_read_from(self, serde.written.val))

WriteMcBlockExtra(x, opts) ==
    Write("McBlockExtra", x, opts,
          IF opts = SERDE_OPTS_EMPTY THEN McBlockExtra_write_to(NewBuilder, x)
          ELSE McBlockExtra_write_with_opts(NewBuilder, x, opts))

ReadMcBlockExtra ==
    Read("McBlockExtra", "read", serde.written.val,
         McBlockExtra_read_from(DefaultMcBlockExtra, serde.written.val))

\* read_from of a cell with another tag
ReadMcBlockExtraTagged(tag) ==
    /\ serde.type = "McBlockExtra"
    /\ LET cell == [serde.written.val EXCEPT !.data = replace_first(@, "u16", tag)]
       IN  Read("McBlockExtra", "read_tagged", cell,
                McBlockExtra_read_from(DefaultMcBlockExtra, cell))

WriteMcStateExtra(x) ==
    Write("McStateExtra", x, SERDE_OPTS_EMPTY, McStateExtra_write_to(NewBuilder, x))

ReadMcStateExtra ==
    Read("McStateExtra", "read", serde.written.val,
         McStateExtra_read_from(DefaultMcStateExtra, serde.written.val))

\* read_from of a cell with another flags word
ReadMcStateExtraFlagged(flags) ==
    /\ serde.type = "McStateExtra"
    /\ LET cell == [serde.written.val EXCEPT
                       !.refs[1].data = replace_first(@, "u16", flags)]
       IN  Read("McStateExtra", "read_flagged", cell,
                McStateExtra_read_from(DefaultMcStateExtra, cell))

NextSerde ==
    \/ \E x \in ShardCollatorsPool : WriteShardCollators(x)
    \/ ReadShardCollators
    \/ \E len \in LongLens : ReadShardCollatorsLong(len)
    \/ \E x \in ShardDescrPool : WriteShardDescr(x)
    \/ ReadShardDescr
    \/ \E self \in ShardDescrReceivers : ReadShardDescrInto(self)
    \/ \E x \in McBlockExtraPool, opts \in {SERDE_OPTS_EMPTY, SERDE_OPTS_COMMON_MESSAGE} :
           WriteMcBlockExtra(x, opts)
    \/ ReadMcBlockExtra
    \/ \E tag \in OtherTags : ReadMcBlockExtraTagged(tag)
    \/ \E x \in McStateExtraPool : WriteMcStateExtra(x)
    \/ ReadMcStateExtra
    \/ \E flags \in BadFlags : ReadMcStateExtraFlagged(flags)

(***************************************************************************)
(* McBlockExtra: the copyleft messages written and the calls.              *)
(***************************************************************************)
\* the lists passed to write_copyleft_msgs
RECURSIVE MsgLists(_)
MsgLists(n) ==
    IF n = 0 THEN {<<>>}
    ELSE MsgLists(n - 1) \cup {Append(l, m) : l \in MsgLists(n - 1), m \in {1, 2, 3}}

\* McBlockExtra::write_copyleft_msgs on a McBlockExtra::default() and on the
\* value the calls before left
WriteCopyleftMsgs(value) ==
    /\ serde.type \in {"none", "CopyleftMessages"}
    /\ serde' = Serde("CopyleftMessages", "written",
                      write_copyleft_msgs(IF serde.type = "none" THEN EmptyMap ELSE serde.x,
                                          value, SERDE_OPTS_EMPTY).val,
                      SERDE_OPTS_EMPTY, Ok(value), Err)
    /\ UNCHANGED <<debug_build, kb_vars, sh_vars, cn_vars>>

ReadCopyleftMsgs ==
    /\ serde.type = "CopyleftMessages"
    /\ serde' = [serde EXCEPT !.stage = "read", !.read = read_copyleft_msgs(serde.x)]
    /\ UNCHANGED <<debug_build, kb_vars, sh_vars, cn_vars>>

NextCopyleft ==
    \/ \E value \in MsgLists(MaxMsgs) : WriteCopyleftMsgs(value)
    \/ ReadCopyleftMsgs

(***************************************************************************)
(* RefShardBlocks: the ids given and the calls.                            *)
(***************************************************************************)
\* the i-th id of a list and its end_lt
IdOf(shard, i) == <<BlockIdExt(shard, i, 10 + i, 20 + i), 30 + i>>

\* the lists of ids given to with_ids
IdLists(max) ==
    UNION {{[i \in 1..n |-> IdOf(f[i], i)] : f \in [1..n -> ShardIdents]} : n \in 0..max}

WithIds(ids) ==
    /\ serde.type = "none"
    /\ serde' = Serde("RefShardBlocks", "built", ids, SERDE_OPTS_EMPTY, with_ids(ids), Err)
    /\ UNCHANGED <<debug_build, kb_vars, sh_vars, cn_vars>>

RefShardBlock(shard_ident) ==
    /\ serde.type = "RefShardBlocks"
    /\ serde.written.tag = "Ok"
    /\ serde' = [serde EXCEPT !.stage = "asked",
                              !.read = ref_shard_block(serde.written.val, shard_ident)]
    /\ UNCHANGED <<debug_build, kb_vars, sh_vars, cn_vars>>

NextRefShardBlocks ==
    \/ \E ids \in IdLists(MaxIds) : WithIds(ids)
    \/ \E shard_ident \in ShardIdents : RefShardBlock(shard_ident)

(***************************************************************************)
(* Specifications.                                                         *)
(***************************************************************************)
Init ==
    /\ debug_build \in BOOLEAN
    /\ prev_blocks = EmptyDict
    /\ kb_last = KbLast("none", U32(0, 0), Ok(None))
    /\ shards = EmptyMap
    /\ last = Last("none", Ok(None))
    /\ counters = DefaultCounters
    /\ cn_last = CnLast("none", U64Zero, U32(0, 0), "true")
    /\ cn_calls = 0
    /\ cn_loaded = FALSE
    /\ serde = NoSerde

\* the key-block index of one build
SpecKeyBlocks == Init /\ [][NextKeyBlocks]_vars

\* the shard topology
InitShards == Init /\ debug_build = FALSE

SpecShards == InitShards /\ [][NextShards]_vars

\* a Counters value of one build
SpecCounters == Init /\ [][NextCounters]_vars

\* a Counters value under almost_equals and almost_zero, of one build
SpecAlmost == Init /\ [][NextAlmost]_vars

\* the copyleft messages of one McBlockExtra
SpecCopyleft == InitShards /\ [][NextCopyleft]_vars

\* one RefShardBlocks::with_ids and the lookups in its result
SpecRefShardBlocks == InitShards /\ [][NextRefShardBlocks]_vars

\* the shard topology of a McStateExtra, with both add_workchain entry points
SpecRegister == InitShards /\ [][NextRegister]_vars

\* the key-block index under check_key_block
SpecCheckKeyBlock == InitShards /\ [][NextCheckKeyBlock]_vars

\* the shard topology under calc_shard_cc_seqno, of one build
SpecCcSeqno == Init /\ [][NextCcSeqno]_vars

\* the wire formats
SpecSerde == InitShards /\ [][NextSerde]_vars

Next ==
    \/ NextKeyBlocks \/ NextCheckKeyBlock \/ NextShards \/ NextCcSeqno \/ NextCounters
    \/ NextAlmost \/ NextCopyleft \/ NextRefShardBlocks \/ NextRegister
    \/ NextSerde

Spec == Init /\ [][Next]_vars

(***************************************************************************)
(* Key-block index: the linear scans the queries are compared with.        *)
(***************************************************************************)
MaxOf(S) == CHOOSE x \in S : \A y \in S : U32Le(y, x)
MinOf(S) == CHOOSE x \in S : \A y \in S : U32Le(x, y)

PrevScan(dict, req_seqno) ==
    LET c == {k \in DOMAIN dict : dict[k].key /\ U32Le(dict[k].blk_ref.seq_no, req_seqno)}
    IN  IF c = {} THEN None ELSE Some(dict[MaxOf(c)].blk_ref)

NextScan(dict, req_seqno) ==
    LET c == {k \in DOMAIN dict : dict[k].key /\ U32Le(req_seqno, dict[k].blk_ref.seq_no)}
    IN  IF c = {} THEN None ELSE Some(dict[MinOf(c)].blk_ref)

\* the root of the index is a fork with an empty label: the stored seq_nos
\* differ in their first bit
RootLabelEmpty == DOMAIN prev_blocks # {} /\ LabelEnd(DOMAIN prev_blocks) = 0

\* C1: get_prev_key_block(req_seqno) returns the key entry with the greatest
\* seq_no <= req_seqno, and None exactly when there is none (the answer of a
\* linear scan), for every index and every req_seqno.
C1_PrevMatchesScan ==
    kb_last.op = "prev" =>
        kb_last.res = Ok(PrevScan(prev_blocks, kb_last.req_seqno))

\* C2: get_next_key_block(req_seqno) returns the key entry with the smallest
\* seq_no >= req_seqno, and None exactly when there is none (the answer of a
\* linear scan), for every index and every req_seqno.
C2_NextMatchesScan ==
    kb_last.op = "next" =>
        kb_last.res = Ok(NextScan(prev_blocks, kb_last.req_seqno))

\* Where the two queries do return, they return the answer of the linear scan;
\* they fail to return only in a dev/test build on an index whose root label is
\* empty and that holds a key block.
KeyBlockQueriesReturnScan ==
    /\ kb_last.op = "prev" /\ kb_last.res.tag = "Ok" =>
           kb_last.res = Ok(PrevScan(prev_blocks, kb_last.req_seqno))
    /\ kb_last.op = "next" /\ kb_last.res.tag = "Ok" =>
           kb_last.res = Ok(NextScan(prev_blocks, kb_last.req_seqno))
    /\ kb_last.op \in {"prev", "next"} =>
           (kb_last.res.tag # "Ok" <=>
               /\ kb_last.res.tag = "Panic"
               /\ debug_build
               /\ RootLabelEmpty
               /\ \E k \in DOMAIN prev_blocks : prev_blocks[k].key)

(***************************************************************************)
(* Shard topology: properties.                                             *)
(***************************************************************************)
\* the keys of the deepest length a topology within the bound can hold
FullKeys == [1..MaxLeaves -> Bits]

Left(shard) == ShardIdent(shard.workchain_id, Append(shard.prefix, 0))
Right(shard) == ShardIdent(shard.workchain_id, Append(shard.prefix, 1))

IsLeaf(sh, shard) ==
    shard.workchain_id \in DOMAIN sh /\ shard.prefix \in DOMAIN sh[shard.workchain_id]

DescrOf(sh, shard) == sh[shard.workchain_id][shard.prefix]

Leaves(sh) == {shard \in ShardIdents : IsLeaf(sh, shard)}

Halved(sh, wc) == wc \in DOMAIN sh /\ DOMAIN sh[wc] = {<<0>>, <<1>>}

SplitAt(sh, shard, l, r) == split_shard(sh, shard, Ok(<<l, r>>))

Added(sh, wc, params) ==
    add_workchain(sh, wc, params.reg_mc_seqno, params.zerostate_root_hash,
                  params.zerostate_file_hash, params.collators)

\* C3: in every workchain, whatever split_shard and merge_shards calls were
\* made since add_workchain, every full-length key has exactly one leaf whose
\* prefix is a prefix of it
C3_LeavesPartitionKeys ==
    \A wc \in DOMAIN shards : \A k \in FullKeys :
        Cardinality({p \in DOMAIN shards[wc] : IsPrefixOf(p, k)}) = 1

\* a workchain of three leaves at two depths, reached by a split
C3_Witness ==
    /\ last.op = "split_shard" /\ last.res.tag = "Ok"
    /\ \E wc \in DOMAIN shards : \E b \in Bits :
           DOMAIN shards[wc] = {<<b>>, <<1 - b, 0>>, <<1 - b, 1>>}

\* C4: for every leaf k, split_shard(k) followed by merge_shards(k) with the
\* merger returning the descriptor the leaf had gives back the topology
C4_MergeUndoesSplit ==
    \A k \in Leaves(shards) : \A l, r \in DescrPool :
        LET split == SplitAt(shards, k, l, r)
            merged == merge_shards(split.shards, k, Ok(DescrOf(shards, k)))
        IN  /\ split.res = Ok(None)
            /\ split.shards # shards
            /\ merged.res = Ok(None)
            /\ merged.shards = shards

\* a merge brought a split workchain back to its leaf, beside another workchain
C4_Witness ==
    /\ last.op = "merge_shards" /\ last.res.tag = "Ok"
    /\ Cardinality(DOMAIN shards) = 2
    /\ \A wc \in DOMAIN shards : DOMAIN shards[wc] = {<<>>}

\* C5: split_shard(s, splitter) fails and leaves the ShardHashes unchanged
\* when the workchain of s is not registered, no leaf lies exactly at s or
\* the splitter fails; it changes the topology only when a leaf lies at s
C5_SplitFailsUnchanged ==
    \A s \in ShardIdents : \A splitter \in SplitterResults :
        LET out == split_shard(shards, s, splitter)
        IN  /\ (~IsLeaf(shards, s) \/ splitter = Err)
                   => (out.res = Err /\ out.shards = shards)
            /\ out.shards # shards => IsLeaf(shards, s)

\* a split failed on a topology holding a fork, a leaf below it and an
\* unregistered workchain
C5_Witness ==
    /\ last.op = "split_shard" /\ last.res.tag = "Err"
    /\ \E wc \in Workchains : wc \notin DOMAIN shards
    /\ \E wc \in DOMAIN shards : Cardinality(DOMAIN shards[wc]) = MaxLeaves

\* C6: merge_shards(p, merger) succeeds only when p is a fork of two leaves;
\* otherwise, and when the merger fails, it fails and leaves the ShardHashes
\* unchanged
C6_MergeOnlyForkOfLeaves ==
    \A p \in ShardIdents : \A merger \in MergerResults :
        LET out == merge_shards(shards, p, merger)
            fork_of_leaves == IsLeaf(shards, Left(p)) /\ IsLeaf(shards, Right(p))
        IN  /\ out.res = Ok(None) => fork_of_leaves
            /\ (~fork_of_leaves \/ merger = Err)
                   => (out.res = Err /\ out.shards = shards)
            /\ out.shards # shards => fork_of_leaves

\* a merge failed on a workchain whose root is a fork with a fork as a child
C6_Witness ==
    /\ last.op = "merge_shards" /\ last.res.tag = "Err"
    /\ \E wc \in DOMAIN shards : \E b \in Bits :
           DOMAIN shards[wc] = {<<b>>, <<1 - b, 0>>, <<1 - b, 1>>}

\* C7 as stated: add_workchain(id, ...) fails and leaves the ShardHashes
\* unchanged when id is registered; otherwise the workchain has one leaf, at
\* prefix length 0, whose descriptor carries the given reg_mc_seqno, zerostate
\* hashes and collators with every other field at its default, and every
\* other workchain is unchanged
C7_AddWorkchainAllDefaults ==
    \A wc \in Workchains : \A params \in WorkchainParams :
        LET out == Added(shards, wc, params)
        IN  IF wc \in DOMAIN shards
            THEN out.res = Err /\ out.shards = shards
            ELSE /\ out.res = Ok(None)
                 /\ DOMAIN out.shards = DOMAIN shards \cup {wc}
                 /\ DOMAIN out.shards[wc] = {<<>>}
                 /\ out.shards[wc][<<>>] =
                        [DefaultShardDescr EXCEPT
                            !.reg_mc_seqno = params.reg_mc_seqno,
                            !.root_hash = params.zerostate_root_hash,
                            !.file_hash = params.zerostate_file_hash,
                            !.collators = params.collators]
                 /\ \A other \in DOMAIN shards : out.shards[other] = shards[other]

\* C7: add_workchain(id, ...) fails and leaves the ShardHashes unchanged when
\* id is registered; otherwise the workchain has one leaf, at prefix length 0,
\* whose descriptor carries the given reg_mc_seqno, zerostate hashes and
\* collators and next_validator_shard = SHARD_FULL, every other field at its
\* default, and every other workchain is unchanged
C7_AddWorkchain ==
    \A wc \in Workchains : \A params \in WorkchainParams :
        LET out == Added(shards, wc, params)
        IN  IF wc \in DOMAIN shards
            THEN out.res = Err /\ out.shards = shards
            ELSE /\ out.res = Ok(None)
                 /\ DOMAIN out.shards = DOMAIN shards \cup {wc}
                 /\ DOMAIN out.shards[wc] = {<<>>}
                 /\ out.shards[wc][<<>>] =
                        [DefaultShardDescr EXCEPT
                            !.reg_mc_seqno = params.reg_mc_seqno,
                            !.root_hash = params.zerostate_root_hash,
                            !.file_hash = params.zerostate_file_hash,
                            !.collators = params.collators,
                            !.next_validator_shard = SHARD_FULL]
                 /\ \A other \in DOMAIN shards : out.shards[other] = shards[other]

\* add_workchain failed on a registered workchain that had been split, and
\* can still register the other workchain
C7_Witness ==
    /\ last.op = "add_workchain" /\ last.res.tag = "Err"
    /\ \E wc \in DOMAIN shards : Cardinality(DOMAIN shards[wc]) = 2
    /\ \E wc \in Workchains : wc \notin DOMAIN shards

\* C8: after add_workchain(w) and split_shard of the full shard of w with a
\* splitter returning (L, R), find_shard and get_shard on the left half return
\* the record of the left half with L, on the right half the record of the
\* right half with R, and get_shard on the full shard returns None
C8_HalvesAfterSplit ==
    \A w \in Workchains \ DOMAIN shards : \A params \in WorkchainParams :
        \A l, r \in DescrPool :
            LET full == ShardFull(w)
                split == SplitAt(Added(shards, w, params).shards, full, l, r)
                sh == split.shards
            IN  /\ split.res = Ok(None)
                /\ find_shard(sh, Left(full)) = Ok(Some(from_shard_descr(Left(full), l)))
                /\ get_shard(sh, Left(full)) = Ok(Some(from_shard_descr(Left(full), l)))
                /\ find_shard(sh, Right(full)) = Ok(Some(from_shard_descr(Right(full), r)))
                /\ get_shard(sh, Right(full)) = Ok(Some(from_shard_descr(Right(full), r)))
                /\ get_shard(sh, full) = Ok(None)

\* the full shard of a workchain was split into two different descriptors,
\* which the queries on its halves return
C8_Witness ==
    /\ last.op = "split_shard" /\ last.res.tag = "Ok"
    /\ \E w \in DOMAIN shards :
           /\ Halved(shards, w)
           /\ shards[w][<<0>>] # shards[w][<<1>>]
           /\ find_shard(shards, Left(ShardFull(w))).val[1].descr = shards[w][<<0>>]
           /\ get_shard(shards, Right(ShardFull(w))).val[1].descr = shards[w][<<1>>]
           /\ get_shard(shards, ShardFull(w)) = Ok(None)

RecordOf(sh, shard) == from_shard_descr(shard, DescrOf(sh, shard))

OnlyWorkchain0Halved(sh) == DOMAIN sh = {0} /\ Halved(sh, 0)

BlockIdOf(sh, shard) ==
    BlockIdExt(shard, DescrOf(sh, shard).seq_no, DescrOf(sh, shard).root_hash,
               DescrOf(sh, shard).file_hash)

\* the keys of the entries of new_shards that list block_id
KeysListing(new_shards, block_id) ==
    {k \in DOMAIN new_shards : \E i \in 1..Len(new_shards[k]) : new_shards[k][i] = block_id}

\* what C10 says of a leaf s with before_split and the map get_new_shards built
SplitEntries(sh, s, new_shards) ==
    /\ KeysListing(new_shards, BlockIdOf(sh, s)) = {Left(s), Right(s)}
    /\ new_shards[Left(s)] = <<BlockIdOf(sh, s)>>
    /\ new_shards[Right(s)] = <<BlockIdOf(sh, s)>>
    /\ s \notin DOMAIN new_shards

BeforeSplitLeaves(sh) == {s \in Leaves(sh) : DescrOf(sh, s).before_split}

MergingForks(sh) ==
    {p \in ShardIdents :
        /\ IsLeaf(sh, Left(p)) /\ IsLeaf(sh, Right(p))
        /\ \A c \in {Left(p), Right(p)} :
               DescrOf(sh, c).before_merge /\ ~DescrOf(sh, c).before_split}

\* what C11 says of the siblings below p and the map get_new_shards built
MergeEntry(sh, p, new_shards) ==
    /\ KeysListing(new_shards, BlockIdOf(sh, Left(p))) = {p}
    /\ KeysListing(new_shards, BlockIdOf(sh, Right(p))) = {p}
    /\ new_shards[p] = <<BlockIdOf(sh, Left(p)), BlockIdOf(sh, Right(p))>>
    /\ Left(p) \notin DOMAIN new_shards
    /\ Right(p) \notin DOMAIN new_shards

ScaledOverflows(count) == count[1] # 0 \/ count[2] # 0

\* a step of increase_by
IncreaseByStep == cn_last'.op = "increase_by"

\* C12: from a default Counters, after any increase_by calls, is_valid() is
\* true: total = 0 implies both sums are 0, total # 0 implies last_updated # 0
C12_AlwaysValid == ~cn_loaded => is_valid(counters)

\* C13: increase_by returns false and leaves the four fields unchanged when
\* the counter is invalid or when total + count, cnt2048 + count * 2^32 or
\* cnt65536 + count * 2^32 does not fit in 64 bits
C13_RejectsOverflow ==
    [][IncreaseByStep =>
          LET count == cn_last'.count
              no_room == \/ ~is_valid(counters)
                         \/ AddOverflows(counters.total, count)
                         \/ ScaledOverflows(count)
                         \/ AddOverflows(counters.cnt2048, Shl32(count))
                         \/ AddOverflows(counters.cnt65536, Shl32(count))
          IN  no_room => (cn_last'.ret = "false" /\ counters' = counters)]_vars

\* C14: total never decreases over increase_by calls: after a call that
\* returns true it is the previous total plus count, after a call that
\* returns false it is unchanged
C14_TotalMonotonic ==
    [][IncreaseByStep =>
          /\ cn_last'.ret \in {"true", "false"}
          /\ LimbsLe(counters.total, counters'.total)
          /\ cn_last'.ret = "true" =>
                 /\ ~AddOverflows(counters.total, cn_last'.count)
                 /\ counters'.total = WrappingAdd(counters.total, cn_last'.count)
          /\ cn_last'.ret = "false" => counters'.total = counters.total]_vars

\* a second increase_by added a non-zero count to a non-zero total
C14_Witness ==
    /\ cn_last.op = "increase_by" /\ cn_last.ret = "true"
    /\ cn_calls = 2 /\ ~cn_loaded
    /\ cn_last.count # U64Zero
    /\ LimbsLt(cn_last.count, counters.total)

\* a successful increase_by on a counter in use, dt >= 48 * 2048 after its
\* last update
LongGapStep ==
    /\ IncreaseByStep /\ cn_last'.ret = "true"
    /\ counters.total # U64Zero
    /\ U32Le(ResetDt, checked_sub_or_default(cn_last'.now, counters.last_updated))

ReadBack == serde.read.tag = "Ok" /\ serde.read.val = serde.x

\* C16: for every ShardDescr x for which write_to succeeds, read_from of the
\* encoding into a default ShardDescr yields a value equal to x
C16_ShardDescrRoundTrip ==
    (serde.type = "ShardDescr" /\ serde.stage = "read") => ReadBack

\* C17: for every McBlockExtra x and every serialization option for which
\* write_with_opts (or write_to) succeeds, read_from of the encoding into a
\* default McBlockExtra yields a value equal to x in all of its fields
C17_McBlockExtraRoundTrip ==
    (serde.type = "McBlockExtra" /\ serde.stage = "read") => ReadBack

\* the first value of the cell written
WrittenTag == serde.written.val.data[1][2]

\* C18: encoding McBlockExtra fails, the builder left as it was, exactly when
\* the copyleft messages are non-empty with the common-message option, or the
\* mesh is non-empty without it; otherwise the tag written is 0xDC75 iff the
\* copyleft messages are non-empty, 0xDC76 iff they are empty and the option
\* is set, 0xCCA5 otherwise; decoding rejects every other tag
C18_McBlockExtraTags ==
    serde.type = "McBlockExtra" =>
        LET copyleft == serde.x.copyleft_msgs # <<>>
            common_message == "COMMON_MESSAGE" \in serde.opts
            rejected == \/ copyleft /\ common_message
                        \/ serde.x.mesh # <<>> /\ ~common_message
        IN  /\ serde.stage \in {"written", "read"} =>
                /\ serde.written.tag = "Err" <=> rejected
                /\ rejected => serde.written.val = Cell(<<>>, <<>>)
                /\ ~rejected =>
                     /\ WrittenTag = MC_BLOCK_EXTRA_TAG_2 <=> copyleft
                     /\ WrittenTag = MC_BLOCK_EXTRA_TAG_3 <=> ~copyleft /\ common_message
                     /\ WrittenTag = MC_BLOCK_EXTRA_TAG <=> ~copyleft /\ ~common_message
            /\ serde.stage = "read_tagged" => serde.read.tag = "Err"

\* a mesh was given to write_to, which has no common-message option: nothing
\* was written
C18_Witness ==
    /\ serde.type = "McBlockExtra" /\ serde.stage = "written"
    /\ serde.x.mesh # <<>> /\ serde.x.copyleft_msgs = <<>>
    /\ serde.opts = SERDE_OPTS_EMPTY
    /\ serde.written.tag = "Err"

\* the flags word of the cell McStateExtra::write_to referenced
WrittenFlags == serde.written.val.refs[1].data[1][2]

\* the types of the values of that cell
WrittenSections ==
    LET data == serde.written.val.refs[1].data
    IN  {data[i][1] : i \in 1..Len(data)}

RangesOf(x) ==
    {x.prev, x.current, x.next}
        \cup (IF x.prev2 = None THEN {} ELSE {x.prev2[1]})
        \cup (IF x.next2 = None THEN {} ELSE {x.next2[1]})

\* C20: a ShardCollators whose ranges hold at most 9 mempool entries each,
\* with stat empty or not, is encoded, and construct_from of the encoding
\* yields a value equal to it, the mempool lists included; a range with more
\* than 9 entries makes encoding fail, a length byte above 9 decoding
C20_ShardCollatorsRoundTrip ==
    serde.type = "ShardCollators" =>
        LET long == \E r \in RangesOf(serde.x) : Len(r.mempool) > 9
        IN  /\ serde.stage = "written" => (serde.written.tag = "Err" <=> long)
            /\ serde.stage = "read" => ReadBack
            /\ serde.stage = "read_long" => serde.read.tag = "Err"

(***************************************************************************)
(* Key-block index: check_key_block.                                       *)
(***************************************************************************)
\* check_key_block returns Ok exactly for the ids and flags it should
CheckKeyBlockAgrees ==
    \A id \in CheckIds, is_key_opt \in IsKeyOpts :
        check_key_block(prev_blocks, id, is_key_opt).tag = "Ok" <=>
            /\ id.shard_id.workchain_id = -1
            /\ id.seq_no \in DOMAIN prev_blocks
            /\ prev_blocks[id.seq_no].blk_ref.root_hash = id.root_hash
            /\ prev_blocks[id.seq_no].blk_ref.file_hash = id.file_hash
            /\ (is_key_opt = None \/ is_key_opt = Some(prev_blocks[id.seq_no].key))

\* C21: check_key_block(id, is_key_opt) returns Ok exactly when id is a
\* masterchain block id, the index has an entry at id.seq_no whose root hash
\* and file hash equal those of id, and is_key_opt is None or the entry's key
\* flag; in every other case it returns an error; it never changes the index
C21_CheckKeyBlock ==
    [][kb_last'.op = "check" =>
          /\ prev_blocks' = prev_blocks
          /\ kb_last'.res.tag \in {"Ok", "Err"}
          /\ CheckKeyBlockAgrees']_vars

\* a check succeeded on an index of two blocks
C21_Witness ==
    /\ kb_last.op = "check" /\ kb_last.res.tag = "Ok"
    /\ Cardinality(DOMAIN prev_blocks) = 2


(***************************************************************************)
(* calc_shard_cc_seqno                                                     *)
(***************************************************************************)
\* the leaves of the workchain of s that are s itself or an ancestor of s
CoveringLeaves(sh, s) == {p \in DOMAIN sh[s.workchain_id] : IsPrefixOf(p, s.prefix)}

\* x + 1 as an integer, kept as <<hi, lo>> with hi = 2^16 for 2^32
Successor(x) == IF x[2] = Limb - 1 THEN <<x[1] + 1, 0>> ELSE <<x[1], x[2] + 1>>

\* the cases in which calc_shard_cc_seqno(s) is to return a value
CcSeqnoDefined(sh, s) ==
    /\ s.workchain_id # MASTERCHAIN_ID
    /\ s.workchain_id \in DOMAIN sh
    /\ \/ CoveringLeaves(sh, s) # {}
       \/ IsLeaf(sh, Left(s)) /\ IsLeaf(sh, Right(s))

\* the value it is to return in these cases
CcSeqnoOf(sh, s) ==
    IF CoveringLeaves(sh, s) # {}
    THEN sh[s.workchain_id][CHOOSE p \in CoveringLeaves(sh, s) : TRUE].next_catchain_seqno
    ELSE Successor(U32MaxOf(DescrOf(sh, Left(s)).next_catchain_seqno,
                            DescrOf(sh, Right(s)).next_catchain_seqno))

CcSeqnoAgrees(sh, s, dbg) ==
    LET res == calc_shard_cc_seqno(sh, s, dbg)
    IN  IF CcSeqnoDefined(sh, s)
        THEN res.tag = "Ok" /\ res.val = CcSeqnoOf(sh, s)
        ELSE res.tag = "Err"

\* C22: calc_shard_cc_seqno(s) fails for a masterchain shard and for an
\* unregistered workchain; when the leaf under the left ancestor mask is s or
\* an ancestor of s it returns that leaf's next_catchain_seqno; when s is the
\* parent of the two leaves under its masks it returns the maximum of their
\* next_catchain_seqno plus one; in every other case it returns an error
C22_CalcShardCcSeqno ==
    \A s \in CcShardIdents : CcSeqnoAgrees(shards, s, debug_build)

\* the same, for the parents whose two leaves are both below 2^32 - 1
C22_CalcShardCcSeqnoBelowMax ==
    \A s \in CcShardIdents :
        \/ /\ s.workchain_id \in DOMAIN shards
           /\ IsLeaf(shards, Left(s)) /\ IsLeaf(shards, Right(s))
           /\ U32Max \in {DescrOf(shards, Left(s)).next_catchain_seqno,
                          DescrOf(shards, Right(s)).next_catchain_seqno}
        \/ CcSeqnoAgrees(shards, s, debug_build)

\* a parent of two leaves, the right one the greater, was asked about
C22_ParentOfTwoLeaves ==
    /\ last.op = "calc_shard_cc_seqno" /\ last.res.tag = "Ok"
    /\ last.res.val.workchain_id \in DOMAIN shards
    /\ IsLeaf(shards, Left(last.res.val)) /\ IsLeaf(shards, Right(last.res.val))
    /\ U32Lt(DescrOf(shards, Left(last.res.val)).next_catchain_seqno,
             DescrOf(shards, Right(last.res.val)).next_catchain_seqno)

(***************************************************************************)
(* Counters: almost_equals and almost_zero.                                *)
(***************************************************************************)
\* |a - b| <= 1 as integers
DifferByAtMostOne(a, b) ==
    \/ a = b
    \/ a # U64Max /\ WrappingAdd(a, U64One) = b
    \/ b # U64Max /\ WrappingAdd(b, U64One) = a

AlmostEqual(a, b) ==
    /\ a.last_updated = b.last_updated
    /\ a.total = b.total
    /\ DifferByAtMostOne(a.cnt2048, b.cnt2048)
    /\ DifferByAtMostOne(a.cnt65536, b.cnt65536)

AlmostZeroAgrees ==
    almost_zero(counters) <=>
        (LimbsLe(counters.cnt2048, U64One) /\ LimbsLe(counters.cnt65536, U64One))

\* C23: almost_equals(a, b) is true exactly when last_updated and total are
\* equal and each decayed sum differs by at most 1, over the whole 64-bit
\* range and without arithmetic overflow; almost_zero is true exactly when
\* both decayed sums are at most 1
C23_AlmostEquals ==
    /\ AlmostZeroAgrees
    /\ \A other \in AlmostCounters :
           almost_equals(counters, other, debug_build) = BoolOf(AlmostEqual(counters, other))

\* the same, for the pairs with no decayed sum at 2^64 - 1
C23_AlmostEqualsBelowMax ==
    /\ AlmostZeroAgrees
    /\ \A other \in AlmostCounters :
           \/ U64Max \in {counters.cnt2048, counters.cnt65536, other.cnt2048, other.cnt65536}
           \/ almost_equals(counters, other, debug_build)
                  = BoolOf(AlmostEqual(counters, other))

\* a value with a decayed sum at 2^64 - 1 was compared with one that differs
\* from it by 1
C23_ComparedAtMax ==
    /\ cn_last.op = "almost_equals"
    /\ cn_last.count = U64Max
    /\ counters.cnt2048 = U64(Limb - 1, Limb - 1, Limb - 1, Limb - 2)

(***************************************************************************)
(* Key-block index: the shifts of build_key_part and of the visitors.      *)
(***************************************************************************)
\* the nodes of the trie over the keys K, each as the set of keys below it
RECURSIVE TrieNodes(_)
TrieNodes(K) ==
    IF K = {} THEN {}
    ELSE IF LabelEnd(K) = KeyBits THEN {K}
    ELSE {K} \cup TrieNodes(Child(K, LabelEnd(K), 0)) \cup TrieNodes(Child(K, LabelEnd(K), 1))

\* the nodes on which the visitors call build_key_part: those whose
\* aggregate announces a key block
KeyNodes == {K \in TrieNodes(DOMAIN prev_blocks) : NodeAug(prev_blocks, K).key}

\* at the node over K: build_key_part shifts by 32 - m and returns the
\* consumed prefix, and below the full length the visitors shift by d - 1 and
\* double a value below 2^31
ShiftsInRange(K) ==
    LET m == LabelEnd(K)
        x == KeyPrefix(CHOOSE k \in K : TRUE, m)
    IN  /\ (32 - m) \in 0..31
        /\ build_key_part(x, m, debug_build) = Ok(x)
        /\ m < 32 => ((32 - m) - 1 \in 0..31 /\ ~U32Wraps(x))

\* C24: for every prefix length the traversal can pass, 0 at a root with an
\* empty label included, build_key_part returns the value of the consumed
\* prefix, every 32-bit shift of build_key_part, get_prev_key_block and
\* get_next_key_block has an amount in 0..31, and 2 * x and 2 * x + 1 do not
\* exceed 2^32 - 1
C24_ShiftsInRange == \A K \in KeyNodes : ShiftsInRange(K)

\* the same, for the nodes that consumed at least one bit
C24_ShiftsInRangeBelowRoot == \A K \in KeyNodes : LabelEnd(K) > 0 => ShiftsInRange(K)

\* a fork below a root that consumed bits, and one entry below it with the
\* full 32 bits consumed, hold a key block
C24_DeepNodes ==
    \E K \in KeyNodes : LabelEnd(K) \in 1..31 /\ \E L \in KeyNodes : L # K /\ L \subseteq K

(***************************************************************************)
(* Shard topology: what update_shard, split_shard and merge_shards change. *)
(***************************************************************************)
\* the leaf at prefix p of workchain wc is outside the subtree of s
Outside(wc, p, s) == wc # s.workchain_id \/ ~IsPrefixOf(s.prefix, p)

\* from sh to sh2 no workchain came or went, and the leaves outside the
\* subtree of s are the same with the same descriptors
OutsideUnchanged(sh, sh2, s) ==
    /\ DOMAIN sh2 = DOMAIN sh
    /\ \A wc \in DOMAIN sh :
           /\ {p \in DOMAIN sh2[wc] : Outside(wc, p, s)}
                  = {p \in DOMAIN sh[wc] : Outside(wc, p, s)}
           /\ \A p \in DOMAIN sh[wc] : Outside(wc, p, s) => sh2[wc][p] = sh[wc][p]

\* the prefixes of the leaves of sh in the subtree of s
LeavesBelow(sh, s) == {p \in DOMAIN sh[s.workchain_id] : IsPrefixOf(s.prefix, p)}

UpdateChangesOnlyLeaf(s, mutator) ==
    LET out == update_shard(shards, s, mutator)
    IN  /\ out.res.tag = "Ok" =>
               /\ IsLeaf(shards, s)
               /\ OutsideUnchanged(shards, out.shards, s)
               /\ LeavesBelow(out.shards, s) = {s.prefix}
               /\ DescrOf(out.shards, s) = mutator.val
        /\ ~IsLeaf(shards, s) => (out.res.tag = "Err" /\ out.shards = shards)

SplitChangesOnlyTarget(s, splitter) ==
    LET out == split_shard(shards, s, splitter)
    IN  out.res.tag = "Ok" =>
            /\ OutsideUnchanged(shards, out.shards, s)
            /\ LeavesBelow(shards, s) = {s.prefix}
            /\ LeavesBelow(out.shards, s) = {Left(s).prefix, Right(s).prefix}

MergeChangesOnlyTarget(s, merger) ==
    LET out == merge_shards(shards, s, merger)
    IN  out.res.tag = "Ok" =>
            /\ OutsideUnchanged(shards, out.shards, s)
            /\ LeavesBelow(shards, s) = {Left(s).prefix, Right(s).prefix}
            /\ LeavesBelow(out.shards, s) = {s.prefix}

\* C25: a successful update_shard(s, mutator) changes only the descriptor of
\* the leaf at s (the leaf prefixes, the other leaves and the other
\* workchains stay); a successful split_shard or merge_shards changes only
\* the node at the target key; update_shard on a key that is not a leaf
\* fails with no change
C25_OnlyTargetChanges ==
    \A s \in ShardIdents :
        /\ \A mutator \in MutatorResults : UpdateChangesOnlyLeaf(s, mutator)
        /\ \A splitter \in SplitterResults : SplitChangesOnlyTarget(s, splitter)
        /\ \A merger \in MergerResults : MergeChangesOnlyTarget(s, merger)

\* update_shard succeeded in a topology of two workchains, one of them split
C25_Witness ==
    /\ last.op = "update_shard" /\ last.res.tag = "Ok"
    /\ Cardinality(DOMAIN shards) = 2
    /\ \E wc \in DOMAIN shards :
           /\ Cardinality(DOMAIN shards[wc]) = 2
           /\ \E p, q \in DOMAIN shards[wc] : shards[wc][p] # shards[wc][q]

(***************************************************************************)
(* ShardDescr::read_from and the prior contents of its receiver.           *)
(***************************************************************************)
\* the fields every tag assigns
ShardDescrFieldsRead ==
    {"seq_no", "reg_mc_seqno", "start_lt", "end_lt", "root_hash", "file_hash",
     "before_split", "before_merge", "want_split", "want_merge", "nx_cc_updated",
     "next_catchain_seqno", "next_validator_shard", "min_ref_mc_seqno", "gen_utime",
     "split_merge_at", "fees_collected", "funds_created"}

\* a ShardDescr was written; the cell is read into the receivers a and b
ReadIntoAgree(a, b, fields) ==
    LET ra == ShardDescr_read_from(a, serde.written.val)
        rb == ShardDescr_read_from(b, serde.written.val)
    IN  /\ ra.tag = rb.tag
        /\ ra.tag = "Ok" => \A f \in fields : ra.val[f] = rb.val[f]

\* C26: the result of ShardDescr::read_from depends only on the decoded
\* input: the same valid encoding read into two receivers with different
\* prior contents yields equal values, for every accepted tag
C26_ReadFromIgnoresReceiver ==
    serde.type = "ShardDescr" /\ serde.written.tag = "Ok" =>
        \A a, b \in ShardDescrReceivers : ReadIntoAgree(a, b, DOMAIN DefaultShardDescr)

\* the same, for the fields every tag assigns
C26_ReadFromAgreesOnFieldsRead ==
    serde.type = "ShardDescr" /\ serde.written.tag = "Ok" =>
        \A a, b \in ShardDescrReceivers : ReadIntoAgree(a, b, ShardDescrFieldsRead)

\* a cell of each tag was read into a receiver in use
C26_ReadInto ==
    /\ serde.stage = "read_into" /\ serde.read.tag = "Ok"
    /\ serde.read.val.mesh_msg_queues = <<2>>
    /\ serde.written.val.data[1][2] = SHARD_IDENT_TAG_G

(***************************************************************************)
(* Shard topology: the keys of get_new_shards.                             *)
(***************************************************************************)
Sibling(s) ==
    ShardIdent(s.workchain_id,
               [s.prefix EXCEPT ![Len(s.prefix)] = 1 - s.prefix[Len(s.prefix)]])

\* the leaves get_new_shards lists under their parent
MergingLeaves(sh) ==
    {s \in Leaves(sh) : DescrOf(sh, s).before_merge /\ ~DescrOf(sh, s).before_split}

\* the keys of new_shards in workchain wc are pairwise disjoint and cover the
\* workchain, and every leaf is listed under one key, or under its two
\* children when it has before_split
NewShardsPartition(sh, new_shards, wc) ==
    LET keys == {k \in DOMAIN new_shards : k.workchain_id = wc}
    IN  /\ \A j, k \in keys : j # k => ~IsPrefixOf(j.prefix, k.prefix)
        /\ \A full \in FullKeys : \E k \in keys : IsPrefixOf(k.prefix, full)
        /\ \A s \in Leaves(sh) :
               s.workchain_id = wc =>
                   IF DescrOf(sh, s).before_split
                   THEN KeysListing(new_shards, BlockIdOf(sh, s)) = {Left(s), Right(s)}
                   ELSE Cardinality(KeysListing(new_shards, BlockIdOf(sh, s))) = 1

\* C27: in every reachable topology, whatever before_split and before_merge
\* the leaves have, the keys of the map get_new_shards() returns are, within
\* one workchain, pairwise disjoint shards that cover the workchain, and every
\* leaf's block id is in exactly one entry, or in exactly its two child
\* entries when it has before_split
C27_NewShardsPartition ==
    LET res == get_new_shards(shards)
    IN  res.tag = "Ok" => \A wc \in DOMAIN shards : NewShardsPartition(shards, res.val, wc)

\* the same, where every leaf listed under its parent has a sibling leaf that
\* is listed under it too
C27_NewShardsPartitionOfPairs ==
    LET res == get_new_shards(shards)
    IN  /\ res.tag = "Ok"
        /\ \A s \in MergingLeaves(shards) : Sibling(s) \in MergingLeaves(shards)
        => \A wc \in DOMAIN shards : NewShardsPartition(shards, res.val, wc)

\* get_new_shards succeeded with before_merge on one of two sibling leaves
C27_OneSidedMerge ==
    /\ last.op = "get_new_shards" /\ last.res.tag = "Ok"
    /\ \E s \in MergingLeaves(shards) :
           IsLeaf(shards, Sibling(s)) /\ Sibling(s) \notin MergingLeaves(shards)

(***************************************************************************)
(* McBlockExtra: write_copyleft_msgs and read_copyleft_msgs.               *)
(***************************************************************************)
\* C28: after any sequence of write_copyleft_msgs calls, read_copyleft_msgs
\* returns exactly the list of the most recent call, in the same order; a
\* shorter list written after a longer one leaves nothing of the longer behind
C28_ReadsLastWritten ==
    serde.type = "CopyleftMessages" =>
        /\ read_copyleft_msgs(serde.x).tag = "Ok"
        /\ read_copyleft_msgs(serde.x).val = serde.written.val
        /\ serde.stage = "read" => serde.read = Ok(serde.written.val)

\* the same, where no call before passed a longer list
C28_ReadsLastWrittenLongest ==
    serde.type = "CopyleftMessages"
        /\ Len(serde.written.val) = Cardinality(DOMAIN serde.x)
        => /\ read_copyleft_msgs(serde.x) = Ok(serde.written.val)
           /\ serde.stage = "read" => serde.read = Ok(serde.written.val)

\* a list was read after a shorter list was written over a longer one
C28_ShorterAfterLonger ==
    /\ serde.type = "CopyleftMessages" /\ serde.stage = "read"
    /\ Len(serde.written.val) = 1
    /\ Cardinality(DOMAIN serde.x) = MaxMsgs

(***************************************************************************)
(* RefShardBlocks::with_ids                                                *)
(***************************************************************************)
\* the shards the ids name, and the workchains of these
ShardsOf(ids) == {ids[i][1].shard_id : i \in 1..Len(ids)}

WorkchainsOf(ids) == {s.workchain_id : s \in ShardsOf(ids)}

\* the shards of workchain wc among S partition its shard space: every
\* full-length key lies in exactly one of them
PartitionsWorkchain(S, wc) ==
    \A full \in FullKeys :
        Cardinality({s \in S : s.workchain_id = wc /\ IsPrefixOf(s.prefix, full)}) = 1

\* the ShardBlockRef the ids give for shard s: the one of the last id of s
GivenFor(ids, s) ==
    LET given == {j \in 1..Len(ids) : ids[j][1].shard_id = s}
        i == CHOOSE j \in given : \A k \in given : k <= j
    IN  with_params(ids[i][1], ids[i][2])

WithIdsAgrees(ids, res, exactly) ==
    LET partition == \A wc \in WorkchainsOf(ids) : PartitionsWorkchain(ShardsOf(ids), wc)
    IN  /\ res.tag \in {"Ok", "Err"}
        /\ partition => res.tag = "Ok"
        /\ exactly /\ res.tag = "Ok" => partition
        /\ res.tag = "Ok" /\ partition =>
               \A s \in ShardsOf(ids) : ref_shard_block(res.val, s) = Ok(Some(GivenFor(ids, s)))

\* C29: with_ids terminates on every finite input and succeeds exactly when
\* the shards given partition the shard space of each workchain (a gap, or an
\* ancestor given with a descendant, is an error); on success
\* ref_shard_block(shard) returns the seq_no, hashes and end_lt given for it
C29_WithIdsPartition ==
    serde.type = "RefShardBlocks" =>
        /\ serde.written = with_ids(serde.x)
        /\ WithIdsAgrees(serde.x, serde.written, TRUE)

\* the same without "exactly": a partition succeeds and is looked up as given
C29_WithIdsOfPartition ==
    serde.type = "RefShardBlocks" =>
        /\ serde.written = with_ids(serde.x)
        /\ WithIdsAgrees(serde.x, serde.written, FALSE)

\* with_ids succeeded on the full shard given with one of its halves
C29_FullWithHalf ==
    /\ serde.type = "RefShardBlocks" /\ serde.stage = "asked"
    /\ \E s \in ShardsOf(serde.x) : Len(s.prefix) = 0 /\ Left(s) \in ShardsOf(serde.x)
    /\ serde.read = Ok(None)

\* with_ids was given a gap and the three leaves of a partition
C29_GapAndPartition ==
    /\ serde.type = "RefShardBlocks" /\ serde.stage = "asked"
    /\ Cardinality(ShardsOf(serde.x)) = 3
    /\ serde.read.val # None

(***************************************************************************)
(* Shard topology: add_workchain on a registered workchain.                *)
(***************************************************************************)
\* ShardHashes::add_workchain for the registered workchain wc leaves its tree
ShardHashesKeepsTree(wc) ==
    \A params \in WorkchainParams : Added(shards, wc, params).shards[wc] = shards[wc]

\* McStateExtra::add_workchain for the registered workchain wc leaves its tree
McStateExtraKeepsTree(wc) ==
    \A descr \in DescrPool :
        McStateExtra_add_workchain(shards, wc, descr).shards[wc] = shards[wc]

\* C30: registering a workchain never discards a shard tree: after any
\* add_workchain, split_shard, merge_shards and update_shard calls, an
\* add_workchain call through either entry point for a workchain that is
\* already registered leaves its leaves and descriptors unchanged
C30_RegisteredTreeKept ==
    \A wc \in DOMAIN shards : ShardHashesKeepsTree(wc) /\ McStateExtraKeepsTree(wc)

\* the same for ShardHashes::add_workchain alone
C30_ShardHashesKeepsTree == \A wc \in DOMAIN shards : ShardHashesKeepsTree(wc)

\* McStateExtra::add_workchain was called in a topology with a split workchain
C30_RegisteredAgain ==
    /\ last.op = "McStateExtra::add_workchain"
    /\ \E wc \in DOMAIN shards : Cardinality(DOMAIN shards[wc]) > 1
====
